---- MODULE Spec2Model ----
(***************************************************************************)
(* A model of the data pipeline of the CP Progress Tracker extension:      *)
(* the daily-log merge and its 365-entry cap (utils/storage.js), the       *)
(* achievement and goal engine (utils/goals.js), the analytics functions   *)
(* (utils/analytics.js), the popup's window comparison and the sync pass   *)
(* of the background worker (background/background.js).                    *)
(*                                                                         *)
(* Representation.  A calendar date string "YYYY-MM-DD" is represented by  *)
(* its day ordinal (an integer); instants are counted in hours since       *)
(* 00:00 UTC of day 0, except solvedAt, which is in epoch seconds as in    *)
(* the code.  A missing property is a missing record field; undefined is NoValue.     *)
(* A solved problem carries its name and rating (its tags are copied the   *)
(* same way as the rating and are left out).                               *)
(***************************************************************************)
EXTENDS Integers, Sequences, FiniteSets, TLC

VARIABLES
    tz,             \* the host's time zone: [base, kind, day]
    daily_logs,     \* chrome.storage.local "daily_logs": sequence of DailyLogEntry
    dl_writes,      \* number of chrome.storage.local.set({daily_logs}) calls so far
    last_op,        \* the storage operation that ran last
    last_ts,        \* whether an entry of its payload had a solvedAt property
    rerun_logs,     \* "daily_logs" as running that operation once more with the
                    \* same argument leaves it
    ops,            \* number of operations run so far
    sweep,          \* SpecCap: the order in which the dates are inserted
    now,            \* the clock (hours)
    achievements,   \* chrome.storage.local "achievements": the earned collection
    newAchievements,\* the batch the last checkAchievements call returned
    last_total,     \* stats.total_problems_solved of that call
    goals,          \* chrome.storage.sync "goals"
    last_stats,     \* the stats the last calculateGoalProgress call was given
    dailyLogsArg,   \* SpecStreak: the dailyLogs calculateStreak is given
    streak,         \* SpecStreak: what calculateStreak returned
    dailyLogs,      \* the popup's dailyLogs, loaded from storage when it opens
    elements,       \* the popup's DOM elements: those that exist are fields
    platformStatsArg,   \* SpecAggregate: the platformStats calculateAggregatedStats is given
    aggregated,     \* SpecAggregate: what calculateAggregatedStats returned
    usernames,      \* config.usernames: platform -> username
    settings,       \* config.settings
    stored_stats,   \* stats_<platform>: platform -> stored stats or Null
    platform_rating_history,    \* rating_history_<platform>: platform -> entries
    aggregated_stats,   \* the stored aggregated_stats
    rating_history, \* the stored combined rating_history
    last_sync,      \* the stored last_sync: <<>> or <<instant>>
    platformStats,  \* the popup's platformStats, loaded when it opens
    sync,           \* the sync pass in progress: its position and its locals
    call,           \* the last direct call of a storage operation: its arguments
    race            \* passes that run concurrently: worker -> position and locals

envVars == <<tz, now>>
fnVars == <<dailyLogsArg, streak, dailyLogs, elements, platformStatsArg, aggregated>>
logVars == <<daily_logs, dl_writes, last_ts, rerun_logs, sweep>>
achVars == <<achievements, newAchievements, last_total>>
goalVars == <<goals, last_stats>>

syncVars == <<usernames, settings, stored_stats, platform_rating_history, aggregated_stats,
              rating_history, last_sync, platformStats, sync>>
callVars == <<call, race>>
vars == <<last_op, ops, envVars, logVars, achVars, goalVars, fnVars, syncVars, callVars>>

NoValue == "undefined"

----------------------------------------------------------------------------
(* Bounds of the model *)

MaxOps == 2             \* storage operations in one behaviour of SpecLogs
MaxProblems == 2        \* length of a payload's solved_problems
NumDates == 400         \* distinct dates inserted in one behaviour of SpecCap
MaxCalls == 3           \* checkAchievements calls in one behaviour of SpecAch
ClockStep == 12         \* hours that pass from one call to the next
MaxGoals == 2           \* goals stored at a time in SpecGoals
MaxGoalOps == 4         \* goal operations in one behaviour of SpecGoals
WindowDays == 7         \* SpecStreak: the dates D-6..D the logs are drawn from
LastDay == 20           \* SpecStreak: the last date D of the window
Today == 100            \* SpecCompare: the day the popup is open
MaxViews == 3           \* SpecCompare: renderings of the comparison view
RatingStep == 2         \* SpecAggregate: the gap between the two higher ratings
MaxPasses == 2          \* SpecSync: sync passes in one behaviour
MaxResyncs == 3         \* SpecResync: sync passes in one behaviour
MaxMerges == 2          \* SpecMerge: rating-history merges in one behaviour
MaxIncoming == 2        \* SpecMerge: length of an incoming rating_history
MaxSnapshots == 3       \* SpecRatings: addRatingHistory calls in one behaviour
MaxFaultPasses == 2     \* SpecFault: sync passes in one behaviour
MaxRacePasses == 3      \* SpecRace: sync passes in one behaviour
MaxClearPasses == 2     \* SpecClear: sync passes in one behaviour

----------------------------------------------------------------------------
(* Time *)

HoursPerDay == 24
SecondsPerHour == 3600
SecondsPerDay == 86400

\* The offset (hours) of local time from UTC at the instant t (hours), for a
\* zone of standard offset z.base that switches at 02:00 local standard time
\* of day z.day: "forward" enters daylight time there, "back" leaves it.
UtcOffset(z, t) ==
    CASE z.kind = "forward" ->
            IF t + z.base >= z.day * HoursPerDay + 2 THEN z.base + 1 ELSE z.base
      [] z.kind = "back" ->
            IF t + z.base < z.day * HoursPerDay + 1 THEN z.base + 1 ELSE z.base
      [] OTHER -> z.base

\* getFullYear / getMonth / getDate of new Date(solvedAt * 1000), formatted
\* as the local date string: the local calendar day of the instant.
LocalDateOfSeconds(z, solvedAt) ==
    (solvedAt + UtcOffset(z, solvedAt \div SecondsPerHour) * SecondsPerHour)
        \div SecondsPerDay

\* new Date("YYYY-MM-DD"): the date string parsed as 00:00 UTC of that day.
DateParse(date) == date * HoursPerDay

UTC == [base |-> 0, kind |-> "none", day |-> 0]

\* the host time zones of the storage and goal specifications
TimeZones == {UTC, [base |-> -5, kind |-> "forward", day |-> 11]}

\* the local calendar day of the instant t
LocalDate(z, t) == (t + UtcOffset(z, t)) \div HoursPerDay

\* the instant of 00:00 local time of the local day
LocalMidnightOfDate(z, day) ==
    LET offset == CASE z.kind = "forward" -> IF day > z.day THEN z.base + 1 ELSE z.base
                    [] z.kind = "back" -> IF day <= z.day THEN z.base + 1 ELSE z.base
                    [] OTHER -> z.base
    IN  day * HoursPerDay - offset

\* d.setHours(0, 0, 0, 0) of the instant t
LocalMidnight(z, t) == LocalMidnightOfDate(z, LocalDate(z, t))

\* getDay() of a local day (0 is Sunday); day 0 is Thursday 1970-01-01
Weekday(day) == (day + 4) % 7

\* the first day of the month of a day of January to March 1970
MonthStart(day) == IF day < 31 THEN 0 ELSE IF day < 59 THEN 31 ELSE 59

RECURSIVE SumOver(_, _)
SumOver(S, f) ==
    \* the sum of f[x] over the x of S
    IF S = {} THEN 0
    ELSE LET x == CHOOSE y \in S : TRUE IN f[x] + SumOver(S \ {x}, f)

\* Before anything ran: noon UTC of day 10 on the clock, every store empty.
InitRun ==
    /\ last_op = "none"
    /\ ops = 0
    /\ now = 10 * HoursPerDay + 12

InitLogVars ==
    /\ daily_logs = <<>>
    /\ dl_writes = 0
    /\ last_ts = FALSE
    /\ rerun_logs = <<>>
    /\ sweep = "none"

InitGoalVars ==
    /\ goals = <<>>
    /\ last_stats = [total_problems_solved |-> 0]

NoResult == [called |-> FALSE]

\* null: a platform with nothing stored
Null == [null |-> TRUE]

InitStreakVars ==
    /\ dailyLogsArg = <<>>
    /\ streak = NoResult

InitPopupVars ==
    /\ dailyLogs = <<>>
    /\ elements = [comparisonType |-> NoValue]

InitAggregateVars ==
    /\ platformStatsArg = [p \in {"codeforces"} |-> Null]
    /\ aggregated = NoResult

InitFnVars == InitStreakVars /\ InitPopupVars /\ InitAggregateVars

\* the platforms in the order of DEFAULT_CONFIG.usernames and of
\* getAllPlatformStats
PlatformOrder == <<"codeforces", "leetcode", "atcoder">>

PlatformSet == {PlatformOrder[i] : i \in 1..Len(PlatformOrder)}

\* DEFAULT_CONFIG.settings: it has no auto_sync_enabled
DefaultSettings == [notifications_enabled |-> TRUE]

\* no pass has run yet
IdlePass ==
    [kind |-> "none", pc |-> "idle", configuredPlatforms |-> <<>>, i |-> 0,
     successCount |-> 0, errorCount |-> 0, attempted |-> <<>>, steps |-> <<>>,
     platformStats |-> <<>>, aggregatedStats |-> Null,
     failed |-> <<>>, before |-> Null, results |-> <<>>, started |-> 0,
     prev |-> [kind |-> "none", results |-> <<>>, started |-> 0],
     trigger |-> "none", storageError |-> FALSE, settled |-> "pending",
     response |-> Null, alert |-> ""]

InitStorage ==
    /\ stored_stats = [p \in PlatformSet |-> Null]
    /\ platform_rating_history = [p \in PlatformSet |-> <<>>]
    /\ aggregated_stats = Null
    /\ rating_history = <<>>
    /\ last_sync = <<>>

InitCallVars ==
    /\ call = NoResult
    /\ race = <<>>

InitSyncVars ==
    /\ usernames = [p \in PlatformSet |-> ""]
    /\ settings = DefaultSettings
    /\ InitStorage
    /\ platformStats = [p \in PlatformSet |-> Null]
    /\ sync = IdlePass

----------------------------------------------------------------------------
(* Sequences *)

Last(s) == s[Len(s)]
Front(s) == SubSeq(s, 1, Len(s) - 1)
Range(s) == {s[i] : i \in 1..Len(s)}
Take(s, n) == SubSeq(s, 1, IF Len(s) < n THEN Len(s) ELSE n)

RECURSIVE FilterSeq(_, _)
FilterSeq(s, keep) ==
    \* keep is the set of elements Array.prototype.filter lets through
    IF s = <<>> THEN <<>>
    ELSE IF s[1] \in keep THEN <<s[1]>> \o FilterSeq(Tail(s), keep)
    ELSE FilterSeq(Tail(s), keep)

\* Array.prototype.sort with the comparator
\*   (a, b) => new Date(b.date) - new Date(a.date):
\* a stable sort, descending by date.
\* the comparator with its sign turned round (ascending)
DateAscBefore(a, b) == DateParse(a.date) - DateParse(b.date) < 0

\* (SortSeq moves an element only in front of those the test puts it
\* before, so entries of equal date keep their order.)
DateDescBefore(a, b) == DateParse(b.date) - DateParse(a.date) < 0

SortByDateDesc(s) == SortSeq(s, DateDescBefore)

----------------------------------------------------------------------------
(* StorageManager: the daily log *)

DailyLogCap == 365

\* findIndex(log => log.date === date): the first index, 0 for -1
FindIndex(logs, date) ==
    IF \E i \in 1..Len(logs) : logs[i].date = date
    THEN CHOOSE i \in 1..Len(logs) :
            /\ logs[i].date = date
            /\ \A j \in 1..(i - 1) : logs[j].date # date
    ELSE 0

\* Map.prototype.set on a map kept as the sequence of its values in insertion
\* order: an existing key keeps its place and takes the new value.
MapSet(m, entry) ==
    LET i == FindIndex(m, entry.date)
    IN  IF i = 0 THEN Append(m, entry) ELSE [m EXCEPT ![i] = entry]

\* new Map(existingLogs.map(log => [log.date, log]))
RECURSIVE MapFrom(_, _, _)
MapFrom(logs, i, acc) ==
    IF i > Len(logs) THEN acc ELSE MapFrom(logs, i + 1, MapSet(acc, logs[i]))

\* (a log whose dates are pairwise distinct is its own map)
LogsMap(existingLogs) ==
    IF Cardinality({existingLogs[i].date : i \in 1..Len(existingLogs)}) = Len(existingLogs)
    THEN existingLogs
    ELSE MapFrom(existingLogs, 1, <<>>)

\* problem.solvedAt is truthy: present and not 0
HasSolvedAt(problem) == "solvedAt" \in DOMAIN problem /\ problem.solvedAt # 0

\* the early return of processSubmissions on a missing or empty solved_problems
NoSolvedProblems(platformData) ==
    \/ "solved_problems" \notin DOMAIN platformData
    \/ platformData.solved_problems = <<>>

\* HasTimestamps without the check of solvedAt
HasTimestampsAny(platformData) == ~NoSolvedProblems(platformData)

\* hasTimestamps after the grouping loop
HasTimestamps(platformData) ==
    /\ ~NoSolvedProblems(platformData)
    /\ \E i \in 1..Len(platformData.solved_problems) :
            HasSolvedAt(platformData.solved_problems[i])

\* dailyProblems: the groups in the order their dates were first seen
\* (Object.entries order), each with the problems pushed for that date.
RECURSIVE GroupByDate(_, _, _, _)
GroupByDate(z, problems, i, acc) ==
    IF i > Len(problems) THEN acc
    ELSE IF ~HasSolvedAt(problems[i]) THEN GroupByDate(z, problems, i + 1, acc)
    ELSE LET date == LocalDateOfSeconds(z, problems[i].solvedAt)
             p == [name |-> problems[i].name, rating |-> problems[i].rating]
             k == FindIndex(acc, date)
         IN  GroupByDate(z, problems, i + 1,
                IF k = 0
                THEN Append(acc, [date |-> date, count |-> 1, problems |-> <<p>>])
                ELSE [acc EXCEPT ![k] = [date |-> date,
                                         count |-> @.count + 1,
                                         problems |-> Append(@.problems, p)]])

DailyProblems(z, platformData) ==
    GroupByDate(z, platformData.solved_problems, 1, <<>>)

\* [...new Set([...a, x])]: a without repetitions, then x unless already there
RECURSIVE Dedup(_, _)
Dedup(s, acc) ==
    IF s = <<>> THEN acc
    ELSE Dedup(Tail(s), IF s[1] \in Range(acc) THEN acc ELSE Append(acc, s[1]))

\* platformData.platform || 'unknown'
PlatformOf(platformData) ==
    IF platformData.platform = NoValue THEN "unknown" ELSE platformData.platform

\* MergedEntry without the filter on the names already recorded
MergedEntryNoFilter(logsMap, data, platformData) ==
    LET k == FindIndex(logsMap, data.date)
        existingProblems == IF k = 0 THEN <<>> ELSE logsMap[k].problems
        allProblems == existingProblems \o data.problems
    IN  [date |-> data.date,
         problems_solved |-> Len(allProblems),
         platforms_used |-> <<PlatformOf(platformData)>>,
         problems |-> allProblems]

\* The entry the loop body stores for one date.
MergedEntry(logsMap, data, platformData) ==
    LET k == FindIndex(logsMap, data.date)
        existingProblems == IF k = 0 THEN <<>> ELSE logsMap[k].problems
        existingProblemNames == {existingProblems[i].name : i \in 1..Len(existingProblems)}
        newProblems == FilterSeq(data.problems,
                          {p \in Range(data.problems) : p.name \notin existingProblemNames})
        allProblems == existingProblems \o newProblems
    IN  [date |-> data.date,
         problems_solved |-> Len(allProblems),
         platforms_used |->
            IF k = 0 THEN <<PlatformOf(platformData)>>
            ELSE Dedup(Append(logsMap[k].platforms_used, PlatformOf(platformData)), <<>>),
         problems |-> allProblems]

RECURSIVE MergeDates(_, _, _, _)
MergeDates(logsMap, groups, i, platformData) ==
    IF i > Len(groups) THEN logsMap
    ELSE MergeDates(MapSet(logsMap, MergedEntry(logsMap, groups[i], platformData)),
                    groups, i + 1, platformData)

\* updatedLogs of processSubmissions, for a payload that has timestamps
UpdatedLogs(z, existingLogs, platformData) ==
    Take(SortByDateDesc(MergeDates(LogsMap(existingLogs),
                                   DailyProblems(z, platformData), 1, platformData)),
         DailyLogCap)

\* sortedLogs of addDailyLog(date, data)
AddedLogs(logs, date, data) ==
    LET entry == [date |-> date,
                  problems_solved |-> data.problems_solved,
                  platforms_used |-> data.platforms_used,
                  problems |-> data.problems]
        i == FindIndex(logs, date)
    IN  Take(SortByDateDesc(IF i > 0 THEN [logs EXCEPT ![i] = entry]
                            ELSE Append(logs, entry)),
             DailyLogCap)

----------------------------------------------------------------------------
(* GoalsManager: achievements *)

\* GoalsManager.achievements; "none" stands for an entry without the field
Catalog ==
    <<[id |-> "first_solve",    threshold |-> 1,    type |-> "none",      platform |-> "none"],
      [id |-> "solve_10",       threshold |-> 10,   type |-> "none",      platform |-> "none"],
      [id |-> "solve_50",       threshold |-> 50,   type |-> "none",      platform |-> "none"],
      [id |-> "solve_100",      threshold |-> 100,  type |-> "none",      platform |-> "none"],
      [id |-> "solve_500",      threshold |-> 500,  type |-> "none",      platform |-> "none"],
      [id |-> "solve_1000",     threshold |-> 1000, type |-> "none",      platform |-> "none"],
      [id |-> "week_streak",    threshold |-> 7,    type |-> "streak",    platform |-> "none"],
      [id |-> "month_streak",   threshold |-> 30,   type |-> "streak",    platform |-> "none"],
      [id |-> "cf_expert",      threshold |-> 1600, type |-> "none",      platform |-> "codeforces"],
      [id |-> "cf_master",      threshold |-> 2100, type |-> "none",      platform |-> "codeforces"],
      [id |-> "multi_platform", threshold |-> 3,    type |-> "platforms", platform |-> "none"],
      [id |-> "night_owl",      threshold |-> 10,   type |-> "time",      platform |-> "none"],
      [id |-> "speed_runner",   threshold |-> 5,    type |-> "daily",     platform |-> "none"]>>

\* new Date().toISOString().split('T')[0]: the UTC date of the clock
UtcDateOf(t) == t \div HoursPerDay

\* stats.<field> >= threshold, false when the field is undefined
AtLeast(stats, field, threshold) ==
    field \in DOMAIN stats /\ stats[field] >= threshold

\* shouldAward, as the switch of checkAchievements computes it
ShouldAward(achievement, stats, t) ==
    CASE achievement.type = "streak" ->
            AtLeast(stats, "current_streak", achievement.threshold)
      [] achievement.type = "platforms" ->
            LET platforms == IF "platforms" \in DOMAIN stats THEN stats.platforms ELSE <<>>
                activePlatforms ==
                    Cardinality({p \in DOMAIN platforms : platforms[p].problems_solved > 0})
            IN  activePlatforms >= achievement.threshold
      [] achievement.type = "daily" ->
            /\ "daily_logs" \in DOMAIN stats
            /\ UtcDateOf(t) \in DOMAIN stats.daily_logs
            /\ stats.daily_logs[UtcDateOf(t)].problems_solved >= achievement.threshold
      [] OTHER ->
            IF achievement.platform # "none"
            THEN /\ "platforms" \in DOMAIN stats
                 /\ achievement.platform \in DOMAIN stats.platforms
                 /\ stats.platforms[achievement.platform].rating >= achievement.threshold
            ELSE AtLeast(stats, "total_problems_solved", achievement.threshold)

\* AlreadyEarned that never skips
AlreadyEarnedNever(earned, achievement) == FALSE

\* earned.some(a => a.id === achievement.id)
AlreadyEarned(earned, achievement) ==
    \E i \in 1..Len(earned) : earned[i].id = achievement.id

\* The loop over the catalog from entry i on: [earned, fresh] are the earned
\* list and newAchievements when it ends.
RECURSIVE AwardLoop(_, _, _, _, _)
AwardLoop(i, earned, fresh, stats, t) ==
    IF i > Len(Catalog) THEN [earned |-> earned, fresh |-> fresh]
    ELSE IF AlreadyEarned(earned, Catalog[i]) THEN AwardLoop(i + 1, earned, fresh, stats, t)
    ELSE IF ShouldAward(Catalog[i], stats, t)
         THEN LET awardedAchievement == [id |-> Catalog[i].id, earned_at |-> t]
              IN  AwardLoop(i + 1, Append(earned, awardedAchievement),
                            Append(fresh, awardedAchievement), stats, t)
         ELSE AwardLoop(i + 1, earned, fresh, stats, t)

CheckAchievements(stats) ==
    LET r == AwardLoop(1, achievements, <<>>, stats, now)
    IN  /\ achievements' = IF Len(r.fresh) > 0 THEN r.earned ELSE achievements
        /\ newAchievements' = r.fresh
        /\ last_total' = stats.total_problems_solved
        /\ last_op' = "checkAchievements"
        /\ UNCHANGED callVars
        /\ now' = now + ClockStep
        /\ ops' = ops + 1
        /\ UNCHANGED <<tz, logVars, goalVars, fnVars, syncVars>>

InitAchVars ==
    /\ achievements = <<>>
    /\ newAchievements = <<>>
    /\ last_total = 0

\* stats arguments: the aggregate a sync pass hands over (totals only), and
\* records that also carry the streak, the platforms and the daily logs
Totals == {0, 10, 100, 1000}

PlatformMaps ==
    {[p \in {"codeforces", "leetcode", "atcoder"} |-> [problems_solved |-> 0, rating |-> 0]],
     [p \in {"codeforces", "leetcode", "atcoder"} |-> [problems_solved |-> 5, rating |-> 1600]],
     [p \in {"codeforces", "leetcode"} |-> [problems_solved |-> 5, rating |-> 2100]]}

DailyLogMaps ==
    {[d \in {10} |-> [problems_solved |-> 5]],
     [d \in {10, 11} |-> [problems_solved |-> 4]]}

StatsArguments ==
    [total_problems_solved : Totals]
        \cup [total_problems_solved : Totals, current_streak : {7, 30},
              platforms : PlatformMaps, daily_logs : DailyLogMaps]

InitAch ==
    /\ InitRun /\ tz = UTC
    /\ InitLogVars /\ InitAchVars /\ InitGoalVars /\ InitFnVars /\ InitSyncVars /\ InitCallVars

NextAch ==
    \E stats \in StatsArguments : ops < MaxCalls /\ CheckAchievements(stats)

SpecAch == InitAch /\ [][NextAch]_vars

----------------------------------------------------------------------------
(* GoalsManager: goals *)

\* addGoal(goal): the stored list with the new goal appended
GoalsWithNew(gs, goal, t) ==
    Append(gs, [id |-> t, created_at |-> t, progress |-> 0, completed |-> FALSE] @@ goal)

\* goals.find(g => g.id === goalId): the first index, 0 for none
FindGoal(gs, goalId) ==
    IF \E i \in 1..Len(gs) : gs[i].id = goalId
    THEN CHOOSE i \in 1..Len(gs) :
            gs[i].id = goalId /\ \A j \in 1..(i - 1) : gs[j].id # goalId
    ELSE 0

\* the goals updateGoalProgress(goalId, progress) stores
UpdatedGoals(gs, goalId, progress, t) ==
    LET i == FindGoal(gs, goalId)
    IN  IF i = 0 THEN gs
        ELSE LET completed == progress >= gs[i].target
                 goal == [gs[i] EXCEPT !.progress = progress, !.completed = completed]
             IN  [gs EXCEPT ![i] =
                    IF completed /\ "completed_at" \notin DOMAIN goal
                    THEN goal @@ [completed_at |-> t]
                    ELSE goal]

\* countSolvedSince(stats, sinceDate)
CountSolvedSince(stats, sinceDate) ==
    LET logsByDate == IF "daily_logs" \in DOMAIN stats THEN stats.daily_logs ELSE <<>>
        since == {date \in DOMAIN logsByDate : DateParse(date) >= sinceDate}
    IN  SumOver(since, [date \in since |-> logsByDate[date].problems_solved])

\* the progress the switch of calculateGoalProgress computes for a goal
GoalProgress(z, goal, stats, t) ==
    CASE goal.type = "weekly" ->
            LET today == LocalDate(z, t)
                weekStart == LocalMidnightOfDate(z, today - Weekday(today))
            IN  CountSolvedSince(stats, weekStart)
      [] goal.type = "monthly" ->
            CountSolvedSince(stats, LocalMidnightOfDate(z, MonthStart(LocalDate(z, t))))
      [] goal.type = "rating" ->
            IF "platforms" \in DOMAIN stats /\ goal.platform \in DOMAIN stats.platforms
            THEN LET platform == stats.platforms[goal.platform]
                     initialRating == IF goal.initial_rating # 0 THEN goal.initial_rating
                                      ELSE platform.rating
                 IN  platform.rating - initialRating
            ELSE 0
      [] goal.type = "streak" ->
            IF "current_streak" \in DOMAIN stats THEN stats.current_streak ELSE 0
      [] goal.type = "contest" ->
            IF "contests_this_month" \in DOMAIN stats THEN stats.contests_this_month ELSE 0
      [] OTHER -> 0

\* SkipsGoal that recomputes the completed goals too
SkipsGoalNever(goal) == FALSE

\* if (goal.completed) continue
SkipsGoal(goal) == goal.completed

\* The loop of calculateGoalProgress over the goals it read (read), from
\* entry i on; stored is what "goals" holds, rewritten by each
\* updateGoalProgress call.
RECURSIVE ProgressLoop(_, _, _, _, _, _)
ProgressLoop(i, read, stored, z, stats, t) ==
    IF i > Len(read) THEN stored
    ELSE IF SkipsGoal(read[i]) THEN ProgressLoop(i + 1, read, stored, z, stats, t)
    ELSE ProgressLoop(i + 1, read,
            UpdatedGoals(stored, read[i].id, GoalProgress(z, read[i], stats, t), t),
            z, stats, t)

\* Goals are created one at a time from the popup's modal, which is removed
\* once the goal is stored: each creation reads a later Date.now().
AddGoal(goal) ==
    /\ Len(goals) < MaxGoals
    /\ goals' = GoalsWithNew(goals, goal, now)
    /\ last_op' = "addGoal"
    /\ UNCHANGED callVars
    /\ now' = now + ClockStep
    /\ ops' = ops + 1
    /\ UNCHANGED <<tz, last_stats, logVars, achVars, fnVars, syncVars>>

DeleteGoal(goalId) ==
    /\ goals' = SelectSeq(goals, LAMBDA g : g.id # goalId)
    /\ last_op' = "deleteGoal"
    /\ UNCHANGED callVars
    /\ now' = now + ClockStep
    /\ ops' = ops + 1
    /\ UNCHANGED <<tz, last_stats, logVars, achVars, fnVars, syncVars>>

CalculateGoalProgress(stats) ==
    /\ goals' = ProgressLoop(1, goals, goals, tz, stats, now)
    /\ last_stats' = stats
    /\ last_op' = "calculateGoalProgress"
    /\ UNCHANGED callVars
    /\ now' = now + ClockStep
    /\ ops' = ops + 1
    /\ UNCHANGED <<tz, logVars, achVars, fnVars, syncVars>>

\* what the modal of the popup passes to addGoal
NewGoals ==
    [type : {"weekly", "monthly", "streak", "contest"}, target : {5}]
        \cup [type : {"rating"}, target : {5}, platform : {"codeforces"},
              initial_rating : {0, 1500}]

GoalStats ==
    [total_problems_solved : {0}]
        \cup [total_problems_solved : {10},
              daily_logs : {[d \in {10} |-> [problems_solved |-> 5]],
                            [d \in {9, 11} |-> [problems_solved |-> 2]]},
              platforms : {[p \in {"codeforces"} |-> [problems_solved |-> 5, rating |-> 1400]],
                           [p \in {"codeforces"} |-> [problems_solved |-> 5, rating |-> 1600]]},
              current_streak : {0, 7},
              contests_this_month : {5}]

InitGoals ==
    /\ InitRun /\ tz \in TimeZones
    /\ InitLogVars /\ InitAchVars /\ InitGoalVars /\ InitFnVars /\ InitSyncVars /\ InitCallVars

NextGoals ==
    \/ \E goal \in NewGoals : ops < MaxGoalOps /\ AddGoal(goal)
    \/ \E i \in 1..Len(goals) : ops < MaxGoalOps /\ DeleteGoal(goals[i].id)
    \/ \E stats \in GoalStats : ops < MaxGoalOps /\ CalculateGoalProgress(stats)

SpecGoals == InitGoals /\ [][NextGoals]_vars

----------------------------------------------------------------------------
(* GoalsManager.updateGoalProgress, called on its own *)

\* the progress a caller can report
Progresses == {2, 5}

UpdateGoalProgress(goalId, progress) ==
    /\ goals' = UpdatedGoals(goals, goalId, progress, now)
    /\ last_op' = "updateGoalProgress"
    /\ UNCHANGED callVars
    /\ now' = now + ClockStep
    /\ ops' = ops + 1
    /\ UNCHANGED <<tz, last_stats, logVars, achVars, fnVars, syncVars>>

NextProgress ==
    \/ \E goal \in NewGoals : ops < MaxGoalOps /\ AddGoal(goal)
    \/ \E i \in 1..Len(goals) : ops < MaxGoalOps /\ DeleteGoal(goals[i].id)
    \/ \E stats \in GoalStats : ops < MaxGoalOps /\ CalculateGoalProgress(stats)
    \/ \E i \in 1..Len(goals) : \E progress \in Progresses :
            ops < MaxGoalOps /\ UpdateGoalProgress(goals[i].id, progress)

SpecProgress == InitGoals /\ [][NextProgress]_vars

----------------------------------------------------------------------------
(* AnalyticsEngine.calculateStreak *)

\* the comparator (a, b) => new Date(a.date) - new Date(b.date): ascending
DateAscOrder(a, b) == DateParse(a.date) - DateParse(b.date) < 0

\* daysDiff of two date strings: whole days between the local midnights of
\* the instants they parse to
DaysDiff(z, prevDate, currDate) ==
    (LocalMidnight(z, DateParse(currDate)) - LocalMidnight(z, DateParse(prevDate)))
        \div HoursPerDay

\* ExtendsRun that also bridges a gap of one day
ExtendsRunOrGap(daysDiff) == daysDiff = 1 \/ daysDiff = 2

\* daysDiff === 1
ExtendsRun(daysDiff) == daysDiff = 1

\* The scanning loop from entry i on: all is allStreaks, temp is tempStreak.
RECURSIVE StreakLoop(_, _, _, _, _)
StreakLoop(z, sortedLogs, i, all, temp) ==
    IF i > Len(sortedLogs) THEN Append(all, temp)
    ELSE IF ExtendsRun(DaysDiff(z, sortedLogs[i - 1].date, sortedLogs[i].date))
         THEN StreakLoop(z, sortedLogs, i + 1, all,
                         [temp EXCEPT !.count = @ + 1, !.end = sortedLogs[i].date])
         ELSE StreakLoop(z, sortedLogs, i + 1, Append(all, temp),
                         [count |-> 1, start |-> sortedLogs[i].date,
                          end |-> sortedLogs[i].date])

RECURSIVE MaxCount(_, _, _)
MaxCount(all, i, max) ==
    \* allStreaks.reduce((max, s) => Math.max(max, s.count), 0)
    IF i > Len(all) THEN max
    ELSE MaxCount(all, i + 1, IF all[i].count > max THEN all[i].count ELSE max)

\* (a, b) => b.count - a.count
CountDescOrder(a, b) == b.count - a.count < 0

\* calculateStreak(dailyLogs), evaluated at the instant t in the zone z
CalculateStreakResult(z, logs, t) ==
    LET sortedLogs == SortSeq(SelectSeq(logs, LAMBDA log : log.problems_solved > 0),
                              DateAscOrder)
    IN  IF logs = <<>> \/ sortedLogs = <<>>
        THEN [current |-> 0, longest |-> 0, streaks |-> <<>>]
        ELSE LET today == LocalMidnight(z, t)
                 allStreaks == StreakLoop(z, sortedLogs, 2, <<>>,
                                  [count |-> 1, start |-> sortedLogs[1].date,
                                   end |-> sortedLogs[1].date])
                 lastStreak == allStreaks[Len(allStreaks)]
                 lastDate == LocalMidnight(z, DateParse(lastStreak.end))
                 daysSinceLastActivity == (today - lastDate) \div HoursPerDay
             IN  [current |-> IF daysSinceLastActivity <= 1 THEN lastStreak.count ELSE 0,
                  longest |-> MaxCount(allStreaks, 1, 0),
                  streaks |-> Take(SortSeq(allStreaks, CountDescOrder), 5)]

CalculateStreak ==
    /\ streak = NoResult
    /\ streak' = [called |-> TRUE] @@ CalculateStreakResult(tz, dailyLogsArg, now)
    /\ last_op' = "calculateStreak"
    /\ UNCHANGED callVars
    /\ ops' = ops + 1
    /\ UNCHANGED <<dailyLogsArg, dailyLogs, elements, platformStatsArg, aggregated>>
    /\ UNCHANGED <<envVars, logVars, achVars, goalVars, syncVars>>

\* the host time zones: fixed offsets and zones whose clocks go forward or
\* back on a day around the window
StreakZones ==
    [base : {-5, 0, 2}, kind : {"none"}, day : {0}]
        \cup [base : {-5, 0, 2}, kind : {"forward", "back"},
              day : (LastDay - WindowDays - 1)..(LastDay + 1)]

\* logs for every date of the window, each with 0 or 1 solved, in the stored
\* (descending) order
WindowLogs ==
    {[i \in 1..WindowDays |-> [date |-> LastDay + 1 - i, problems_solved |-> c[i]]] :
        c \in [1..WindowDays -> {0, 1}]}

InitStreak ==
    /\ last_op = "none"
    /\ ops = 0
    /\ tz \in StreakZones
    /\ now \in {(LastDay + k) * HoursPerDay + 12 : k \in 0..2}
    /\ InitLogVars /\ InitAchVars /\ InitGoalVars
    /\ InitPopupVars /\ InitAggregateVars /\ InitSyncVars /\ InitCallVars
    /\ dailyLogsArg \in WindowLogs
    /\ streak = NoResult

NextStreak == CalculateStreak

SpecStreak == InitStreak /\ [][NextStreak]_vars

----------------------------------------------------------------------------
(* The popup's updateComparison *)

\* parseInt(type) || 30 for the values of the period selector
ParseDays(type) ==
    CASE type = "7d" -> 7
      [] type = "30d" -> 30
      [] type = "90d" -> 90
      [] OTHER -> 30

\* parseInt(log.problems_solved) || 0
SolvedCount(log) ==
    IF "problems_solved" \in DOMAIN log THEN log.problems_solved ELSE 0

\* now.setHours(23, 59, 59, 999), in seconds: the last second of the local day
EndOfToday(z, t) ==
    LocalMidnightOfDate(z, LocalDate(z, t) + 1) * SecondsPerHour - 1

\* new Date(log.date).getTime(), in seconds
DateSeconds(date) == DateParse(date) * SecondsPerHour

RECURSIVE SumSolved(_, _)
SumSolved(logs, i) ==
    \* logs.reduce((sum, log) => sum + (parseInt(log.problems_solved) || 0), 0)
    IF i > Len(logs) THEN 0 ELSE SolvedCount(logs[i]) + SumSolved(logs, i + 1)

\* the decimal digits of n tenths: "w.d"
Tenths(n) == ToString(n \div 10) \o "." \o ToString(n % 10)

\* ToFixed1 that cuts the digits after the first decimal off
ToFixed1Cut(num, den) ==
    LET mag == IF num < 0 THEN -num ELSE num
    IN  (IF num < 0 THEN "-" ELSE "") \o Tenths((1000 * mag) \div den)

\* ((num / den) * 100).toFixed(1) for den > 0: the sign, then the magnitude
\* rounded to the nearest tenth, the larger one of two equally near.  The
\* quotient is a double; for the sums of the model it is within 1e-13 of
\* the exact ratio, and exact wherever the ratio lies halfway between two
\* tenths (den = 16), so the exact rounding is the rounding of the double.
ToFixed1(num, den) ==
    LET mag == IF num < 0 THEN -num ELSE num
    IN  (IF num < 0 THEN "-" ELSE "") \o Tenths((2000 * mag + den) \div (2 * den))

PercentChange(firstHalfProblems, secondHalfProblems) ==
    LET change == secondHalfProblems - firstHalfProblems
    IN  IF firstHalfProblems = 0 /\ secondHalfProblems = 0 THEN "0"
        ELSE IF firstHalfProblems = 0 THEN "N/A"
        ELSE ToFixed1(change, firstHalfProblems)

PeriodLabel(days) ==
    IF days = 7 THEN "week" ELSE IF days = 30 THEN "month"
    ELSE IF days = 90 THEN "quarter" ELSE "year"

\* what updateComparison puts into comparisonResults.innerHTML
ComparisonHtml(z, logs, typeValue, t) ==
    LET type == IF typeValue = NoValue THEN "30d" ELSE typeValue
        days == ParseDays(type)
        end == EndOfToday(z, t)
        periodStart == end - days * SecondsPerDay
        halfPeriod == end - (days * SecondsPerDay) \div 2
        firstHalf == SelectSeq(logs, LAMBDA log :
                        /\ DateSeconds(log.date) >= periodStart
                        /\ DateSeconds(log.date) < halfPeriod)
        secondHalf == SelectSeq(logs, LAMBDA log :
                        /\ DateSeconds(log.date) >= halfPeriod
                        /\ DateSeconds(log.date) <= end)
        firstHalfProblems == SumSolved(firstHalf, 1)
        secondHalfProblems == SumSolved(secondHalf, 1)
    IN  IF logs = <<>> THEN [class |-> "empty-state"]
        ELSE [class |-> "comparison-summary",
              days |-> days,
              firstHalfProblems |-> firstHalfProblems,
              secondHalfProblems |-> secondHalfProblems,
              change |-> secondHalfProblems - firstHalfProblems,
              percentChange |-> PercentChange(firstHalfProblems, secondHalfProblems),
              firstHalfActiveDays |->
                  Len(SelectSeq(firstHalf, LAMBDA log : SolvedCount(log) > 0)),
              secondHalfActiveDays |->
                  Len(SelectSeq(secondHalf, LAMBDA log : SolvedCount(log) > 0)),
              periodLabel |-> PeriodLabel(days)]

UpdateComparison ==
    /\ "comparisonResults" \in DOMAIN elements
    /\ elements' = [elements EXCEPT !.comparisonResults =
                        [innerHTML |-> ComparisonHtml(tz, dailyLogs,
                                                      elements.comparisonType, now)]]
    /\ last_op' = "updateComparison"
    /\ UNCHANGED callVars
    /\ ops' = ops + 1
    /\ UNCHANGED <<dailyLogs, dailyLogsArg, streak, platformStatsArg, aggregated>>
    /\ UNCHANGED <<envVars, logVars, achVars, goalVars, syncVars>>

\* the user picks another period: the change listener runs updateComparison
ChangeComparisonType(type) ==
    /\ "comparisonResults" \in DOMAIN elements
    /\ elements.comparisonType # type
    /\ elements' = [comparisonType |-> type,
                    comparisonResults |->
                        [innerHTML |-> ComparisonHtml(tz, dailyLogs, type, now)]]
    /\ last_op' = "updateComparison"
    /\ UNCHANGED callVars
    /\ ops' = ops + 1
    /\ UNCHANGED <<dailyLogs, dailyLogsArg, streak, platformStatsArg, aggregated>>
    /\ UNCHANGED <<envVars, logVars, achVars, goalVars, syncVars>>

\* the stored logs the popup may have loaded: entries on some of four dates
\* before and on the day the popup is open, newest first
CompareDates == <<Today, Today - 2, Today - 6, Today - 20>>

SolvedCounts == {0, 1, 5, 10, 16}

CompareEntries(date) ==
    {<<>>, <<[date |-> date]>>}
        \cup {<<[date |-> date, problems_solved |-> n]>> : n \in SolvedCounts}

CompareLogs ==
    {a \o b \o c \o d : a \in CompareEntries(CompareDates[1]),
                         b \in CompareEntries(CompareDates[2]),
                         c \in CompareEntries(CompareDates[3]),
                         d \in CompareEntries(CompareDates[4])}

\* DEFAULT_CONFIG.settings.comparison_timeframes
ComparisonTypes == {"7d", "30d", "90d", "all"}

InitCompare ==
    /\ last_op = "none"
    /\ ops = 0
    /\ tz \in {UTC, [base |-> -5, kind |-> "none", day |-> 0]}
    /\ now = Today * HoursPerDay + 12
    /\ InitLogVars /\ InitAchVars /\ InitGoalVars
    /\ InitStreakVars /\ InitAggregateVars /\ InitSyncVars /\ InitCallVars
    /\ dailyLogs \in CompareLogs
    /\ elements = [comparisonType |-> NoValue,
                   comparisonResults |-> [innerHTML |-> [class |-> "none"]]]

NextCompare ==
    \/ ops < MaxViews /\ UpdateComparison
    \/ \E type \in ComparisonTypes : ops < MaxViews /\ ChangeComparisonType(type)

SpecCompare == InitCompare /\ [][NextCompare]_vars

----------------------------------------------------------------------------
(* AnalyticsEngine.calculateAggregatedStats *)

\* the truthiness of stats[field]: present and not 0
Truthy(stats, field) == field \in DOMAIN stats /\ stats[field] # 0

\* CountsRating that takes every record carrying a rating
CountsRatingAny(stats) == "rating" \in DOMAIN stats

\* stats.rating && stats.rating > 0
CountsRating(stats) == Truthy(stats, "rating") /\ stats.rating > 0

\* Math.round(num / den) for den > 0: the nearest integer, the upper one of
\* two equally near
MathRound(num, den) == (2 * num + den) \div (2 * den)

TagOrder == <<"dp", "math">>

\* TagLoop that stores the count of the platform instead of adding it
RECURSIVE TagLoopLastWins(_, _, _, _)
TagLoopLastWins(categoryMastery, platform, tag_distribution, i) ==
    IF i > Len(TagOrder) THEN categoryMastery
    ELSE LET tag == TagOrder[i]
         IN  IF tag \in DOMAIN tag_distribution
             THEN TagLoopLastWins((tag :> [solved |-> tag_distribution[tag],
                                           platforms |-> <<platform>>])
                                      @@ categoryMastery,
                                  platform, tag_distribution, i + 1)
             ELSE TagLoopLastWins(categoryMastery, platform, tag_distribution, i + 1)

RECURSIVE TagLoop(_, _, _, _)
TagLoop(categoryMastery, platform, tag_distribution, i) ==
    IF i > Len(TagOrder) THEN categoryMastery
    ELSE LET tag == TagOrder[i]
             entry == IF tag \in DOMAIN categoryMastery THEN categoryMastery[tag]
                      ELSE [solved |-> 0, platforms |-> <<>>]
         IN  IF tag \in DOMAIN tag_distribution
             THEN TagLoop((tag :> [solved |-> entry.solved + tag_distribution[tag],
                                   platforms |-> Append(entry.platforms, platform)])
                              @@ categoryMastery,
                          platform, tag_distribution, i + 1)
             ELSE TagLoop(categoryMastery, platform, tag_distribution, i + 1)

RECURSIVE AggregateLoop(_, _, _)
AggregateLoop(allStats, i, acc) ==
    IF i > Len(PlatformOrder) THEN acc
    ELSE LET platform == PlatformOrder[i]
             stats == IF platform \in DOMAIN allStats
                      THEN allStats[platform] ELSE Null
         IN  IF "null" \in DOMAIN stats
             THEN AggregateLoop(allStats, i + 1, acc)
             ELSE AggregateLoop(allStats, i + 1,
                    [totalProblems |-> acc.totalProblems +
                        (IF Truthy(stats, "problems_solved")
                         THEN stats.problems_solved ELSE 0),
                     totalContests |-> acc.totalContests +
                        (IF Truthy(stats, "contests_participated")
                         THEN stats.contests_participated ELSE 0),
                     totalRating |-> acc.totalRating +
                        (IF CountsRating(stats) THEN stats.rating ELSE 0),
                     ratingCount |-> acc.ratingCount +
                        (IF CountsRating(stats) THEN 1 ELSE 0),
                     platformsActive |-> acc.platformsActive + 1,
                     categoryMastery |->
                        IF "tag_distribution" \in DOMAIN stats
                        THEN TagLoop(acc.categoryMastery, platform,
                                     stats.tag_distribution, 1)
                        ELSE acc.categoryMastery])

\* calculateAggregatedStats(allStats) at the instant t
AggregatedStats(allStats, t) ==
    LET acc == AggregateLoop(allStats, 1,
                   [totalProblems |-> 0, totalContests |-> 0, totalRating |-> 0,
                    ratingCount |-> 0, platformsActive |-> 0,
                    categoryMastery |-> <<>>])
    IN  [total_problems_solved |-> acc.totalProblems,
         total_contests |-> acc.totalContests,
         average_rating |-> IF acc.ratingCount > 0
                            THEN MathRound(acc.totalRating, acc.ratingCount) ELSE 0,
         platforms_active |-> acc.platformsActive,
         category_mastery |-> acc.categoryMastery,
         last_updated |-> t]

CalculateAggregatedStats ==
    /\ aggregated = NoResult
    /\ aggregated' = [called |-> TRUE] @@ AggregatedStats(platformStatsArg, now)
    /\ last_op' = "calculateAggregatedStats"
    /\ UNCHANGED callVars
    /\ ops' = ops + 1
    /\ UNCHANGED <<platformStatsArg, dailyLogsArg, streak, dailyLogs, elements>>
    /\ UNCHANGED <<envVars, logVars, achVars, goalVars, syncVars>>

\* what may be stored for a platform: nothing, the record a failed
\* connector leaves, and records with ratings of 0, above 0 and below 0
StoredStats ==
    {Null,
     [problems_solved |-> 0, error |-> "HTTP 404"],
     [problems_solved |-> 5, rating |-> 0, contests_participated |-> 0],
     [problems_solved |-> 10, rating |-> 1500, contests_participated |-> 3,
      tag_distribution |-> [tag \in {"dp"} |-> 4]],
     [problems_solved |-> 20, rating |-> 1501 + RatingStep, contests_participated |-> 1,
      tag_distribution |-> [tag \in {"dp", "math"} |-> 2]],
     [problems_solved |-> 7, rating |-> -20, contests_participated |-> 2]}

InitAggregate ==
    /\ InitRun /\ tz = UTC
    /\ InitLogVars /\ InitAchVars /\ InitGoalVars
    /\ InitStreakVars /\ InitPopupVars /\ InitSyncVars /\ InitCallVars
    /\ platformStatsArg \in [{PlatformOrder[i] : i \in 1..Len(PlatformOrder)} -> StoredStats]
    /\ aggregated = NoResult

NextAggregate == CalculateAggregatedStats

SpecAggregate == InitAggregate /\ [][NextAggregate]_vars

----------------------------------------------------------------------------
(* The daily-log merge driven by arbitrary payloads *)

Names == {"Two Sum", "Watermelon"}
Platforms == {"codeforces"}

\* solvedAt values: noon of day 10 and 00:30 UTC of day 11
SolvedAts == {10 * SecondsPerDay + 12 * SecondsPerHour, 11 * SecondsPerDay + 1800}

\* a solved problem, with or without a solvedAt property
SolvedProblem ==
    [name : Names, rating : {800}, solvedAt : SolvedAts]
        \cup [name : Names, rating : {800}]

SeqsUpTo(S, n) == UNION {[1..k -> S] : k \in 0..n}

Payloads ==
    [platform : Platforms \cup {NoValue},
     solved_problems : SeqsUpTo(SolvedProblem, MaxProblems)]
        \cup [platform : Platforms \cup {NoValue}]


\* the value processSubmissions(platformData) leaves under "daily_logs"
StoredAfterProcess(z, logs, platformData) ==
    IF NoSolvedProblems(platformData) \/ ~HasTimestamps(platformData)
    THEN logs
    ELSE UpdatedLogs(z, logs, platformData)

\* whether some entry of the payload has a solvedAt property at all
CarriesSolvedAt(platformData) ==
    /\ "solved_problems" \in DOMAIN platformData
    /\ \E i \in 1..Len(platformData.solved_problems) :
            "solvedAt" \in DOMAIN platformData.solved_problems[i]

ProcessSubmissions(platformData) ==
    /\ IF NoSolvedProblems(platformData) \/ ~HasTimestamps(platformData)
       THEN UNCHANGED <<daily_logs, dl_writes>>
       ELSE /\ daily_logs' = UpdatedLogs(tz, daily_logs, platformData)
            /\ dl_writes' = dl_writes + 1
    /\ last_op' = "processSubmissions"
    /\ UNCHANGED callVars
    /\ last_ts' = CarriesSolvedAt(platformData)
    /\ rerun_logs' = StoredAfterProcess(tz, daily_logs', platformData)
    /\ ops' = ops + 1
    /\ UNCHANGED <<sweep, envVars, achVars, goalVars, fnVars, syncVars>>

AddDailyLog(date, data) ==
    /\ daily_logs' = AddedLogs(daily_logs, date, data)
    /\ dl_writes' = dl_writes + 1
    /\ last_op' = "addDailyLog"
    /\ UNCHANGED callVars
    /\ last_ts' = FALSE
    /\ rerun_logs' = AddedLogs(daily_logs', date, data)
    /\ ops' = ops + 1
    /\ UNCHANGED <<sweep, envVars, achVars, goalVars, fnVars, syncVars>>

InitLogs ==
    /\ InitRun /\ tz \in TimeZones
    /\ InitLogVars /\ InitAchVars /\ InitGoalVars /\ InitFnVars /\ InitSyncVars /\ InitCallVars

NextLogs ==
    \E platformData \in Payloads : ops < MaxOps /\ ProcessSubmissions(platformData)

SpecLogs == InitLogs /\ [][NextLogs]_vars

----------------------------------------------------------------------------
(* The 365-entry cap: NumDates distinct dates inserted one per operation *)

FirstDate == 1

\* the date inserted by operation k: ascending, descending, or outwards
\* from the middle (alternately one day later and one day earlier)
SweepDate(mode, k) ==
    CASE mode = "up" -> FirstDate + k - 1
      [] mode = "down" -> FirstDate + NumDates - k
      [] OTHER ->
            LET mid == FirstDate + NumDates \div 2
            IN  IF k % 2 = 1 THEN mid + k \div 2 ELSE mid - k \div 2

SweepDates(mode, n) == {SweepDate(mode, k) : k \in 1..n}

\* a payload with one problem solved at noon UTC of the date
PayloadOn(date) ==
    [platform |-> "codeforces",
     solved_problems |-> <<[name |-> "Two Sum", rating |-> 800,
                            solvedAt |-> date * SecondsPerDay + 12 * SecondsPerHour]>>]

\* the data addDailyLog is given for a date with one solved problem
DataOn(date) ==
    [problems_solved |-> 1,
     platforms_used |-> <<"codeforces">>,
     problems |-> <<[name |-> "Two Sum", rating |-> 800]>>]

InitCap ==
    /\ InitRun /\ tz = UTC
    /\ daily_logs = <<>>
    /\ dl_writes = 0
    /\ last_ts = FALSE
    /\ rerun_logs = <<>>
    /\ sweep \in {"up", "down", "out"}
    /\ InitAchVars /\ InitGoalVars /\ InitFnVars /\ InitSyncVars /\ InitCallVars

NextCap ==
    \/ ops < NumDates /\ ProcessSubmissions(PayloadOn(SweepDate(sweep, ops + 1)))
    \/ ops < NumDates /\ AddDailyLog(SweepDate(sweep, ops + 1),
                                      DataOn(SweepDate(sweep, ops + 1)))

SpecCap == InitCap /\ [][NextCap]_vars

----------------------------------------------------------------------------
(* The sync pass: performBackgroundSync and the popup's handleSync *)

storageVars == <<stored_stats, platform_rating_history, aggregated_stats,
                 rating_history, last_sync>>

\* String.prototype.trim for the usernames of the model
Trim(username) ==
    IF username = "  " THEN "" ELSE username

\* username alone, without the trim
IsNonEmpty(username) == username # ""

\* username && username.trim()
IsConfigured(username) == username # "" /\ Trim(username) # ""

\* Object.entries(usernames).filter(([_, username]) => username && username.trim())
ConfiguredPlatforms(names) ==
    SelectSeq([k \in 1..Len(PlatformOrder) |->
                  [platform |-> PlatformOrder[k], username |-> names[PlatformOrder[k]]]],
              LAMBDA entry : IsConfigured(entry.username))

\* !settings.auto_sync_enabled && settings.auto_sync_enabled !== undefined
AutoSyncDisabled(s) == "auto_sync_enabled" \in DOMAIN s /\ ~s.auto_sync_enabled

\* The Codeforces and LeetCode handlers rethrow every error of their
\* requests; the AtCoder handler catches its own and returns a placeholder.
Throws(platform) == platform \in {"codeforces", "leetcode"}

\* what fetchPlatformData(platform, username) resolves to, at the instant t
ConnectorData(platform, t) ==
    CASE platform = "codeforces" ->
            {[platform |-> "codeforces", rating |-> 1600, problems_solved |-> 2,
              contests_participated |-> 1,
              tag_distribution |-> [tag \in {"dp"} |-> 1],
              solved_problems |->
                  <<[name |-> "Watermelon", rating |-> 800,
                     solvedAt |-> 10 * SecondsPerDay + 12 * SecondsPerHour]>>,
              rating_history |->
                  <<[contest_name |-> "Round 1", new_rating |-> 1600,
                     date |-> 9 * HoursPerDay + 18]>>,
              last_updated |-> t]}
      [] platform = "leetcode" ->
            {[platform |-> "leetcode", problems_solved |-> 5, last_updated |-> t]}
      [] OTHER ->
            {[platform |-> platform, rating |-> 1200, rank |-> "Green",
              last_updated |-> t],
             [platform |-> platform, rating |-> 0, rank |-> "Unrated",
              note |-> "AtCoder requires web scraping", last_updated |-> t]}

\* setPlatformStats: { ...stats, last_updated: new Date().toISOString() }
StatsToStore(data, t) == [last_updated |-> t] @@ data

\* new Date(entry.date).getTime() of an ISO instant, in seconds
TimestampOf(date) == date * SecondsPerHour

\* (a, b) => a.timestamp - b.timestamp
TimestampOrder(a, b) == a.timestamp - b.timestamp < 0

RECURSIVE HistoryMapSet(_, _, _, _)
HistoryMapSet(historyMap, incoming, i, platform) ==
    \* data.rating_history.forEach(entry => historyMap.set(entry.date, {...}))
    IF i > Len(incoming) THEN historyMap
    ELSE HistoryMapSet(
            MapSet(historyMap,
                   [platform |-> platform, timestamp |-> TimestampOf(incoming[i].date)]
                       @@ incoming[i]),
            incoming, i + 1, platform)

\* UpdatedHistory without the map: the incoming entries are appended
AppendedHistory(history, incoming, platform) ==
    SortSeq(history \o [k \in 1..Len(incoming) |->
                           [platform |-> platform,
                            timestamp |-> TimestampOf(incoming[k].date)] @@ incoming[k]],
            TimestampOrder)

\* updatedHistory of the rating-history merge
UpdatedHistory(history, incoming, platform) ==
    SortSeq(HistoryMapSet(MapFrom(history, 1, <<>>), incoming, 1, platform),
            TimestampOrder)

\* data.rating_history && data.rating_history.length > 0
HasRatingHistory(data) ==
    "rating_history" \in DOMAIN data /\ Len(data.rating_history) > 0

\* todayRatings: the rating of every platform whose stats have a truthy one
TodayRatings(allStats) ==
    LET rated == {p \in DOMAIN allStats :
                     "null" \notin DOMAIN allStats[p] /\ Truthy(allStats[p], "rating")}
    IN  [p \in rated |-> allStats[p].rating]

\* (a, b) => new Date(a.date) - new Date(b.date)
SnapshotOrder(a, b) == DateParse(a.date) - DateParse(b.date) < 0

\* addRatingHistory keeping the ratings the entry of the date already had
MergedRatingHistory(history, date, ratings) ==
    LET existingIndex == FindIndex(history, date)
    IN  SortSeq(IF existingIndex > 0
                THEN [history EXCEPT ![existingIndex] = ratings @@ history[existingIndex]]
                ELSE Append(history, ratings @@ [date |-> date]),
                SnapshotOrder)

\* sortedHistory of addRatingHistory(date, ratings)
AddedRatingHistory(history, date, ratings) ==
    LET entry == ratings @@ [date |-> date]     \* { date, ...ratings }
        existingIndex == FindIndex(history, date)
    IN  SortSeq(IF existingIndex > 0 THEN [history EXCEPT ![existingIndex] = entry]
                ELSE Append(history, entry),
                SnapshotOrder)

PostLoopSteps == <<"aggregate", "ratings", "last_sync", "achievements", "goals">>

\* the loop variable moves on; after the last platform the loop ends
NextPlatform(pass) ==
    [pass EXCEPT !.i = @ + 1,
                 !.pc = IF pass.i + 1 > Len(pass.configuredPlatforms)
                        THEN "aggregate" ELSE "loop"]

\* CaughtFailure with the error leaving the loop for the outer catch
PropagatedFailure(pass) ==
    [pass EXCEPT !.attempted = Append(@, pass.configuredPlatforms[pass.i].platform),
                 !.failed = Append(@, pass.configuredPlatforms[pass.i].platform),
                 !.results = Append(@, [threw |-> TRUE]),
                 !.pc = "done"]

\* the record a connector returns from its own catch, after its request
\* failed
IsPlaceholder(data) == "note" \in DOMAIN data

\* a new pass of a kind: it remembers what the pass before it was given
NewPass(kind, t) ==
    [IdlePass EXCEPT !.kind = kind, !.started = t,
                     !.prev = [kind |-> sync.kind, results |-> sync.results,
                               started |-> sync.started]]

\* the clock when a pass begins: the first pass begins at the initial
\* instant, a later one an hour or ClockStep hours after the one before
StartTimes == IF ops = 0 THEN {now} ELSE {now + 1, now + ClockStep}

\* what is stored when a pass begins (kept to compare with)
StoredNow ==
    [stats |-> stored_stats, history |-> platform_rating_history, logs |-> daily_logs,
     achievements |-> achievements, goals |-> goals,
     aggregated_stats |-> aggregated_stats, rating_history |-> rating_history,
     last_sync |-> last_sync, memory |-> platformStats]

\* the catch of the per-platform try: log, count (the background worker
\* only) and go on with the next platform
CaughtFailure(pass) ==
    NextPlatform(
        [pass EXCEPT !.attempted = Append(@, pass.configuredPlatforms[pass.i].platform),
                     !.failed = Append(@, pass.configuredPlatforms[pass.i].platform),
                     !.results = Append(@, [threw |-> TRUE]),
                     !.errorCount = IF pass.kind = "background" THEN @ + 1 ELSE @])

\* the end of the try block of an iteration
CompletedPlatform(pass) ==
    NextPlatform(
        [pass EXCEPT !.attempted = Append(@, pass.configuredPlatforms[pass.i].platform),
                     !.successCount = IF pass.kind = "background" THEN @ + 1 ELSE @])

\* no pass is running: the passes of a behaviour run one after the other
Idle == sync.pc \in {"idle", "done"}

\* performBackgroundSync up to its loop
StartBackgroundSync ==
    /\ Idle
    /\ now' \in StartTimes
    /\ LET configuredPlatforms == ConfiguredPlatforms(usernames)
           pass == [NewPass("background", now') EXCEPT !.before = StoredNow]
       IN  sync' = IF AutoSyncDisabled(settings) THEN [pass EXCEPT !.pc = "done"]
                   ELSE IF Len(configuredPlatforms) = 0
                   THEN [pass EXCEPT !.pc = "done"]
                   ELSE [pass EXCEPT !.pc = "loop", !.i = 1,
                                     !.configuredPlatforms = configuredPlatforms]
    /\ last_op' = "performBackgroundSync"
    /\ UNCHANGED callVars
    /\ ops' = ops + 1
    /\ UNCHANGED <<usernames, settings, storageVars, platformStats>>
    /\ UNCHANGED <<tz, logVars, achVars, goalVars, fnVars>>

\* handleSync up to its loop
StartHandleSync ==
    /\ Idle
    /\ now' \in StartTimes
    /\ LET configuredPlatforms == ConfiguredPlatforms(usernames)
           pass == [NewPass("popup", now') EXCEPT !.before = StoredNow]
       IN  sync' = IF Len(configuredPlatforms) = 0
                   THEN [pass EXCEPT !.pc = "done"]
                   ELSE [pass EXCEPT !.pc = "loop", !.i = 1,
                                     !.configuredPlatforms = configuredPlatforms]
    /\ last_op' = "handleSync"
    /\ UNCHANGED callVars
    /\ ops' = ops + 1
    /\ UNCHANGED <<usernames, settings, storageVars, platformStats>>
    /\ UNCHANGED <<tz, logVars, achVars, goalVars, fnVars>>

\* an iteration whose fetchPlatformData throws
FetchFails ==
    /\ sync.pc = "loop"
    /\ Throws(sync.configuredPlatforms[sync.i].platform)
    /\ sync' = CaughtFailure(sync)
    /\ last_op' = "fetchFailed"
    /\ UNCHANGED callVars
    /\ UNCHANGED <<usernames, settings, storageVars, platformStats>>
    /\ UNCHANGED <<ops, envVars, logVars, achVars, goalVars, fnVars>>

\* an iteration whose fetchPlatformData returns data: the stats are
\* replaced, the rating history merged, the submissions processed
FetchSucceeds(data) ==
    /\ sync.pc = "loop"
    /\ LET platform == sync.configuredPlatforms[sync.i].platform
       IN  /\ data \in ConnectorData(platform, now)
           /\ stored_stats' = [stored_stats EXCEPT ![platform] = StatsToStore(data, now)]
           /\ platformStats' = IF sync.kind = "popup"
                               THEN [platformStats EXCEPT ![platform] = data]
                               ELSE platformStats
           /\ platform_rating_history' =
                 IF HasRatingHistory(data)
                 THEN [platform_rating_history EXCEPT ![platform] =
                          UpdatedHistory(@, data.rating_history, platform)]
                 ELSE platform_rating_history
    /\ IF NoSolvedProblems(data) \/ ~HasTimestamps(data)
       THEN UNCHANGED <<daily_logs, dl_writes>>
       ELSE /\ daily_logs' = UpdatedLogs(tz, daily_logs, data)
            /\ dl_writes' = dl_writes + 1
    /\ sync' = [CompletedPlatform(sync) EXCEPT
                    !.failed = IF IsPlaceholder(data)
                               THEN Append(@, sync.configuredPlatforms[sync.i].platform)
                               ELSE @,
                    !.results = Append(@, [data EXCEPT !.last_updated = 0])]
    /\ last_op' = "fetched"
    /\ UNCHANGED callVars
    /\ UNCHANGED <<usernames, settings, aggregated_stats, rating_history, last_sync>>
    /\ UNCHANGED <<last_ts, rerun_logs, sweep>>
    /\ UNCHANGED <<ops, envVars, achVars, goalVars, fnVars>>

\* the stats the aggregate is computed from: the background worker reads
\* every stats_<platform> back, the popup uses its own platformStats
UpdateAggregatedStats ==
    /\ sync.pc = "aggregate"
    /\ LET allStats == IF sync.kind = "popup" THEN platformStats ELSE stored_stats
           aggregatedStats == AggregatedStats(allStats, now)
       IN  /\ aggregated_stats' = aggregatedStats
           /\ sync' = [sync EXCEPT !.platformStats = allStats,
                                   !.aggregatedStats = aggregatedStats,
                                   !.steps = Append(@, "aggregate"),
                                   !.pc = "ratings"]
    /\ last_op' = "setAggregatedStats"
    /\ UNCHANGED callVars
    /\ UNCHANGED <<usernames, settings, stored_stats, platform_rating_history,
                   rating_history, last_sync, platformStats>>
    /\ UNCHANGED <<ops, envVars, logVars, achVars, goalVars, fnVars>>

UpdateRatingHistory ==
    /\ sync.pc = "ratings"
    /\ rating_history' = AddedRatingHistory(rating_history, UtcDateOf(now),
                                            TodayRatings(sync.platformStats))
    /\ sync' = [sync EXCEPT !.steps = Append(@, "ratings"), !.pc = "last_sync"]
    /\ last_op' = "addRatingHistory"
    /\ UNCHANGED callVars
    /\ UNCHANGED <<usernames, settings, stored_stats, platform_rating_history,
                   aggregated_stats, last_sync, platformStats>>
    /\ UNCHANGED <<ops, envVars, logVars, achVars, goalVars, fnVars>>

SetLastSync ==
    /\ sync.pc = "last_sync"
    /\ last_sync' = <<now>>
    /\ sync' = [sync EXCEPT !.steps = Append(@, "last_sync"), !.pc = "achievements"]
    /\ last_op' = "setLastSync"
    /\ UNCHANGED callVars
    /\ UNCHANGED <<usernames, settings, stored_stats, platform_rating_history,
                   aggregated_stats, rating_history, platformStats>>
    /\ UNCHANGED <<ops, envVars, logVars, achVars, goalVars, fnVars>>

\* GoalsManager.checkAchievements(aggregatedStats)
SyncAchievements ==
    /\ sync.pc = "achievements"
    /\ LET r == AwardLoop(1, achievements, <<>>, sync.aggregatedStats, now)
       IN  /\ achievements' = IF Len(r.fresh) > 0 THEN r.earned ELSE achievements
           /\ newAchievements' = r.fresh
    /\ last_total' = sync.aggregatedStats.total_problems_solved
    /\ sync' = [sync EXCEPT !.steps = Append(@, "achievements"), !.pc = "goals"]
    /\ last_op' = "checkAchievements"
    /\ UNCHANGED callVars
    /\ UNCHANGED <<usernames, settings, storageVars, platformStats>>
    /\ UNCHANGED <<ops, envVars, logVars, goalVars, fnVars>>

\* GoalsManager.calculateGoalProgress(aggregatedStats); the background
\* worker is done after it, the popup goes on to reload
SyncGoalProgress ==
    /\ sync.pc = "goals"
    /\ goals' = ProgressLoop(1, goals, goals, tz, sync.aggregatedStats, now)
    /\ last_stats' = sync.aggregatedStats
    /\ sync' = [sync EXCEPT !.steps = Append(@, "goals"),
                            !.pc = IF sync.kind = "popup" THEN "reload" ELSE "done"]
    /\ last_op' = "calculateGoalProgress"
    /\ UNCHANGED callVars
    /\ UNCHANGED <<usernames, settings, storageVars, platformStats>>
    /\ UNCHANGED <<ops, envVars, logVars, achVars, fnVars>>

\* loadData, then updateComparison, at the end of handleSync
ReloadPopup ==
    /\ sync.pc = "reload"
    /\ platformStats' = stored_stats
    /\ dailyLogs' = daily_logs
    /\ elements' = IF "comparisonResults" \in DOMAIN elements
                   THEN [elements EXCEPT !.comparisonResults =
                            [innerHTML |-> ComparisonHtml(tz, daily_logs,
                                                          elements.comparisonType, now)]]
                   ELSE elements
    /\ sync' = [sync EXCEPT !.pc = "done"]
    /\ last_op' = "loadData"
    /\ UNCHANGED callVars
    /\ UNCHANGED <<usernames, settings, storageVars>>
    /\ UNCHANGED <<dailyLogsArg, streak, platformStatsArg, aggregated>>
    /\ UNCHANGED <<ops, envVars, logVars, achVars, goalVars>>

\* the popup is opened (again) between passes: loadData
OpenPopup ==
    /\ Idle
    /\ last_op # "openPopup"
    /\ platformStats' = stored_stats
    /\ dailyLogs' = daily_logs
    /\ last_op' = "openPopup"
    /\ UNCHANGED callVars
    /\ UNCHANGED <<usernames, settings, storageVars, sync>>
    /\ UNCHANGED <<elements, dailyLogsArg, streak, platformStatsArg, aggregated>>
    /\ UNCHANGED <<ops, envVars, logVars, achVars, goalVars>>

Usernames == {"", "  ", "tourist"}

SettingsValues ==
    {DefaultSettings} \cup [notifications_enabled : {TRUE}, auto_sync_enabled : BOOLEAN]

\* a goal stored before the passes of the behaviour
EarlierGoal ==
    [id |-> 9 * HoursPerDay, created_at |-> 9 * HoursPerDay, progress |-> 0,
     completed |-> FALSE, type |-> "weekly", target |-> 5]

InitSync ==
    /\ InitRun /\ tz = UTC
    /\ InitLogVars /\ InitAchVars /\ InitFnVars
    /\ goals \in {<<>>, <<EarlierGoal>>}
    /\ last_stats = [total_problems_solved |-> 0]
    /\ usernames \in [PlatformSet -> Usernames]
    /\ settings \in SettingsValues
    /\ InitStorage
    /\ platformStats = [p \in PlatformSet |-> Null]
    /\ sync = IdlePass
    /\ InitCallVars

\* the steps of a pass that has begun, and the popup being opened
PassSteps ==
    \/ FetchFails
    \/ \E p \in PlatformSet : \E data \in ConnectorData(p, now) : FetchSucceeds(data)
    \/ UpdateAggregatedStats
    \/ UpdateRatingHistory
    \/ SetLastSync
    \/ SyncAchievements
    \/ SyncGoalProgress
    \/ ReloadPopup
    \/ OpenPopup

NextSync ==
    \/ ops < MaxPasses /\ StartBackgroundSync
    \/ ops < MaxPasses /\ StartHandleSync
    \/ PassSteps

\* Every await of a pass settles (the requests time out after ten seconds)
\* and the event loop then resumes the pass: a pass that can take a step
\* eventually takes it.
SpecSync == InitSync /\ [][NextSync]_vars /\ WF_vars(NextSync)

\* Repeated passes for one account: Codeforces is configured, AtCoder may
\* be, and up to MaxResyncs passes follow one another.
InitResync ==
    /\ InitRun /\ tz = UTC
    /\ InitLogVars /\ InitAchVars /\ InitFnVars
    /\ goals = <<EarlierGoal>>
    /\ last_stats = [total_problems_solved |-> 0]
    /\ usernames \in {[p \in PlatformSet |-> IF p \in S THEN "tourist" ELSE ""] :
                          S \in {{"codeforces"}, {"codeforces", "atcoder"}}}
    /\ settings = DefaultSettings
    /\ InitStorage
    /\ platformStats = [p \in PlatformSet |-> Null]
    /\ sync = IdlePass
    /\ InitCallVars

NextResync ==
    \/ ops < MaxResyncs /\ StartBackgroundSync
    \/ ops < MaxResyncs /\ StartHandleSync
    \/ PassSteps

SpecResync == InitResync /\ [][NextResync]_vars /\ WF_vars(NextResync)

----------------------------------------------------------------------------
(* Sync passes with a storage that can fail *)

\* the MANUAL_SYNC message arrives: performBackgroundSync up to its loop
ManualSync ==
    /\ Idle
    /\ now' \in StartTimes
    /\ LET configuredPlatforms == ConfiguredPlatforms(usernames)
           pass == [NewPass("background", now') EXCEPT !.before = StoredNow,
                                                       !.trigger = "MANUAL_SYNC"]
       IN  sync' = IF AutoSyncDisabled(settings) THEN [pass EXCEPT !.pc = "done"]
                   ELSE IF Len(configuredPlatforms) = 0
                   THEN [pass EXCEPT !.pc = "done"]
                   ELSE [pass EXCEPT !.pc = "loop", !.i = 1,
                                     !.configuredPlatforms = configuredPlatforms]
    /\ last_op' = "MANUAL_SYNC"
    /\ UNCHANGED callVars
    /\ ops' = ops + 1
    /\ UNCHANGED <<usernames, settings, storageVars, platformStats>>
    /\ UNCHANGED <<tz, logVars, achVars, goalVars, fnVars>>

\* what the catch around the whole of a pass does with an error: the
\* worker logs it, the popup logs it and alerts
OuterCatch(pass) ==
    IF pass.kind = "popup"
    THEN [pass EXCEPT !.pc = "done", !.alert = "Sync failed! Check console for details."]
    ELSE [pass EXCEPT !.pc = "done"]

\* the first getConfig of a pass rejects (no chrome.storage, or
\* chrome.runtime.lastError set): getSettings in the worker, getUsernames
\* in the popup
StorageRejects(kind, trigger) ==
    /\ Idle
    /\ now' \in StartTimes
    /\ sync' = OuterCatch([NewPass(kind, now') EXCEPT !.before = StoredNow,
                                                      !.trigger = trigger,
                                                      !.storageError = TRUE])
    /\ last_op' = "getConfigRejected"
    /\ UNCHANGED callVars
    /\ ops' = ops + 1
    /\ UNCHANGED <<usernames, settings, storageVars, platformStats>>
    /\ UNCHANGED <<tz, logVars, achVars, goalVars, fnVars>>

\* how the promise of performBackgroundSync settles once the function has
\* ended: every error was caught inside, so it is fulfilled
Settled(pass) == "fulfilled"

\* the then / catch of the MANUAL_SYNC handler
SendResponse ==
    /\ sync.trigger = "MANUAL_SYNC"
    /\ sync.pc = "done"
    /\ sync.settled = "pending"
    /\ sync' = [sync EXCEPT !.settled = Settled(sync),
                            !.response = IF Settled(sync) = "fulfilled"
                                         THEN [success |-> TRUE]
                                         ELSE [success |-> FALSE,
                                               error |-> "Chrome storage API not available"]]
    /\ last_op' = "sendResponse"
    /\ UNCHANGED callVars
    /\ UNCHANGED <<usernames, settings, storageVars, platformStats>>
    /\ UNCHANGED <<ops, envVars, logVars, achVars, goalVars, fnVars>>

\* the message of the pass that ended is still to be answered
Unanswered ==
    sync.trigger = "MANUAL_SYNC" /\ sync.pc = "done" /\ sync.settled = "pending"

InitFault ==
    /\ InitRun /\ tz = UTC
    /\ InitLogVars /\ InitAchVars /\ InitFnVars
    /\ goals = <<EarlierGoal>>
    /\ last_stats = [total_problems_solved |-> 0]
    /\ usernames \in {[p \in PlatformSet |-> IF p \in S THEN "tourist" ELSE ""] :
                          S \in {{}, {"codeforces"}, {"leetcode", "atcoder"}}}
    /\ settings = DefaultSettings
    /\ InitStorage
    /\ platformStats = [p \in PlatformSet |-> Null]
    /\ sync = IdlePass
    /\ InitCallVars

NextFault ==
    \/ ops < MaxFaultPasses /\ ~Unanswered /\ StartBackgroundSync
    \/ ops < MaxFaultPasses /\ ~Unanswered /\ StartHandleSync
    \/ ops < MaxFaultPasses /\ ~Unanswered /\ ManualSync
    \/ ops < MaxFaultPasses /\ ~Unanswered /\ StorageRejects("background", "alarm")
    \/ ops < MaxFaultPasses /\ ~Unanswered /\ StorageRejects("background", "MANUAL_SYNC")
    \/ ops < MaxFaultPasses /\ ~Unanswered /\ StorageRejects("popup", "click")
    \/ SendResponse
    \/ PassSteps

SpecFault == InitFault /\ [][NextFault]_vars /\ WF_vars(NextFault)

----------------------------------------------------------------------------
(* The rating-history merge of a loop iteration, on its own *)

\* the instants (hours) of the rating changes of SpecMerge, not in order
ContestDates == {9 * HoursPerDay + 18, 2 * HoursPerDay + 15, 16 * HoursPerDay + 17}

\* an entry as getRatingHistory returns it
ContestEntries ==
    [contest_name : {"Round"}, new_rating : {1500, 1600}, date : ContestDates]

\* an entry as an earlier merge stored it
StoredEntry(entry) ==
    [platform |-> "codeforces", timestamp |-> TimestampOf(entry.date)] @@ entry

\* the histories an earlier merge can have stored: one entry per date,
\* ascending by timestamp
StoredHistories ==
    {SortSeq(MapFrom(s, 1, <<>>), TimestampOrder) :
        s \in UNION {[1..n -> {StoredEntry(e) : e \in ContestEntries}] : n \in 0..2}}

\* what fetchPlatformData resolves to: with a rating_history or without
IncomingData ==
    {[platform |-> "codeforces"]} \cup
    {[platform |-> "codeforces", rating_history |-> h] :
        h \in UNION {[1..n -> ContestEntries] : n \in 0..MaxIncoming}}

\* the rating-history step of the iteration for data
MergedHistory(history, data) ==
    IF HasRatingHistory(data)
    THEN UpdatedHistory(history, data.rating_history, data.platform)
    ELSE history

MergeRatingHistory(data) ==
    /\ ops < MaxMerges
    /\ LET history == platform_rating_history[data.platform]
           merged == MergedHistory(history, data)
       IN  /\ platform_rating_history' =
                 [platform_rating_history EXCEPT ![data.platform] = merged]
           /\ call' = [called |-> TRUE, op |-> "mergeRatingHistory", data |-> data,
                       history |-> history,
                       remerged |-> MergedHistory(merged, data)]
    /\ last_op' = "mergeRatingHistory"
    /\ ops' = ops + 1
    /\ UNCHANGED <<usernames, settings, stored_stats, aggregated_stats, rating_history,
                   last_sync, platformStats, sync, race>>
    /\ UNCHANGED <<envVars, logVars, achVars, goalVars, fnVars>>

InitMerge ==
    /\ InitRun /\ tz = UTC
    /\ InitLogVars /\ InitAchVars /\ InitGoalVars /\ InitFnVars /\ InitCallVars
    /\ usernames = [p \in PlatformSet |-> ""]
    /\ settings = DefaultSettings
    /\ stored_stats = [p \in PlatformSet |-> Null]
    /\ platform_rating_history \in
          {[p \in PlatformSet |-> IF p = "codeforces" THEN h ELSE <<>>] :
              h \in StoredHistories}
    /\ aggregated_stats = Null
    /\ rating_history = <<>>
    /\ last_sync = <<>>
    /\ platformStats = [p \in PlatformSet |-> Null]
    /\ sync = IdlePass

NextMerge == \E data \in IncomingData : MergeRatingHistory(data)

SpecMerge == InitMerge /\ [][NextMerge]_vars

----------------------------------------------------------------------------
(* addRatingHistory, called on its own *)

\* the dates (days) the snapshots of SpecRatings are for
SnapshotDates == {9, 10, 11}

\* the todayRatings a caller can pass: platform -> rating, of any platforms
SnapshotRatings ==
    UNION {[S -> {1200, 1600}] : S \in SUBSET {"codeforces", "atcoder"}}

AddRatingHistory(date, ratings) ==
    /\ ops < MaxSnapshots
    /\ rating_history' = AddedRatingHistory(rating_history, date, ratings)
    /\ call' = [called |-> TRUE, op |-> "addRatingHistory", date |-> date,
                ratings |-> ratings, history |-> rating_history]
    /\ last_op' = "addRatingHistory"
    /\ ops' = ops + 1
    /\ UNCHANGED <<usernames, settings, stored_stats, platform_rating_history,
                   aggregated_stats, last_sync, platformStats, sync, race>>
    /\ UNCHANGED <<envVars, logVars, achVars, goalVars, fnVars>>

InitRatings ==
    /\ InitRun /\ tz = UTC
    /\ InitLogVars /\ InitAchVars /\ InitGoalVars /\ InitFnVars
    /\ InitSyncVars /\ InitCallVars

NextRatings ==
    \E date \in SnapshotDates : \E ratings \in SnapshotRatings :
        AddRatingHistory(date, ratings)

SpecRatings == InitRatings /\ [][NextRatings]_vars

----------------------------------------------------------------------------
(* Sync passes that run at the same time *)

\* A pass of the worker (alarm or message) and a pass of the popup, or two
\* passes of one of them, each suspended at its awaits: every storage get,
\* every storage set and every connector request is a step of its own.
Workers == {1, 2}

IdleWorker ==
    [kind |-> "none", pc |-> "idle", n |-> 0, alone |-> FALSE,
     configuredPlatforms |-> <<>>, i |-> 0, data |-> Null, read |-> Null,
     j |-> 0, allStats |-> <<>>, aggregatedStats |-> Null, todayRatings |-> <<>>,
     goalsRead |-> <<>>, g |-> 0, t |-> 0]

Running(worker) == worker.pc \notin {"idle", "done"}

\* the pass has ended: its locals are gone
Finished(worker) ==
    [IdleWorker EXCEPT !.kind = worker.kind, !.pc = "done", !.n = worker.n,
                       !.alone = worker.alone]

\* the variables a step leaves alone: all but those named in written
Untouched(written) ==
    /\ IF "stored_stats" \in written THEN TRUE ELSE UNCHANGED stored_stats
    /\ IF "platformStats" \in written THEN TRUE ELSE UNCHANGED platformStats
    /\ IF "platform_rating_history" \in written THEN TRUE
       ELSE UNCHANGED platform_rating_history
    /\ IF "daily_logs" \in written THEN TRUE ELSE UNCHANGED <<daily_logs, dl_writes>>
    /\ IF "aggregated_stats" \in written THEN TRUE ELSE UNCHANGED aggregated_stats
    /\ IF "rating_history" \in written THEN TRUE ELSE UNCHANGED rating_history
    /\ IF "last_sync" \in written THEN TRUE ELSE UNCHANGED last_sync
    /\ IF "achievements" \in written THEN TRUE ELSE UNCHANGED achievements
    /\ IF "goals" \in written THEN TRUE ELSE UNCHANGED goals
    /\ IF "clock" \in written THEN TRUE ELSE UNCHANGED <<now, ops>>
    /\ UNCHANGED <<tz, last_ts, rerun_logs, sweep, newAchievements, last_total,
                   last_stats, fnVars, usernames, settings, sync, call>>

\* the first goal from g on that calculateGoalProgress does not skip
RECURSIVE NextGoal(_, _)
NextGoal(goalsRead, g) ==
    IF g > Len(goalsRead) THEN g
    ELSE IF SkipsGoal(goalsRead[g]) THEN NextGoal(goalsRead, g + 1)
    ELSE g

\* AfterLoop with the worker too aggregating the popup's platformStats
AfterLoopOfMemory(worker, memory, t) ==
    [worker EXCEPT !.pc = "setAggregate", !.allStats = memory,
                   !.aggregatedStats = AggregatedStats(memory, t)]

\* after the stats of the loop are in: the worker goes on to read every
\* stats_<platform> back, the popup aggregates its platformStats (memory)
AfterLoop(worker, memory, t) ==
    IF worker.kind = "popup"
    THEN [worker EXCEPT !.pc = "setAggregate", !.allStats = memory,
                        !.aggregatedStats = AggregatedStats(memory, t)]
    ELSE [worker EXCEPT !.pc = "getStats", !.j = 1,
                        !.allStats = [p \in PlatformSet |-> Null]]

\* the end of an iteration of the loop
AfterPlatform(worker, memory, t) ==
    IF worker.i + 1 > Len(worker.configuredPlatforms)
    THEN AfterLoop([worker EXCEPT !.i = @ + 1], memory, t)
    ELSE [worker EXCEPT !.i = @ + 1, !.pc = "fetch"]

\* after the rating-history step of an iteration: processSubmissions
AfterHistory(worker, memory, t) ==
    IF NoSolvedProblems(worker.data) \/ ~HasTimestamps(worker.data)
    THEN AfterPlatform(worker, memory, t)
    ELSE [worker EXCEPT !.pc = "getLogs"]

\* a pass begins in a worker that runs none (the second only while the
\* first is busy); the clock has moved on
RaceStart(w, kind) ==
    /\ ~Running(race.w[w])
    /\ w = 1 \/ Running(race.w[1])
    /\ ops < MaxRacePasses
    /\ now' = now + 1
    /\ ops' = ops + 1
    /\ LET configuredPlatforms == ConfiguredPlatforms(usernames)
           others == {v \in Workers \ {w} : Running(race.w[v])}
           pass == [IdleWorker EXCEPT !.kind = kind, !.n = ops + 1,
                                      !.alone = others = {}]
       IN  race' = [race EXCEPT
                !.overlapped = @ \/ others # {},
                !.w = [v \in Workers |->
                        IF v = w
                        THEN IF kind = "background" /\ AutoSyncDisabled(settings)
                             THEN [pass EXCEPT !.pc = "done"]
                             ELSE IF Len(configuredPlatforms) = 0
                             THEN [pass EXCEPT !.pc = "done"]
                             ELSE [pass EXCEPT !.pc = "fetch", !.i = 1,
                                     !.configuredPlatforms = configuredPlatforms]
                        ELSE [race.w[v] EXCEPT !.alone = FALSE]]]
    /\ last_op' = "raceStart"
    /\ Untouched({"clock"})

\* fetchPlatformData settles: it throws, or resolves to the data
RaceFetch(w) ==
    /\ race.w[w].pc = "fetch"
    /\ LET worker == race.w[w]
           outcome == race.upstream[worker.configuredPlatforms[worker.i].platform]
       IN  race' = [race EXCEPT !.w[w] =
                IF "threw" \in DOMAIN outcome
                THEN AfterPlatform(worker, platformStats, now)
                ELSE [worker EXCEPT !.pc = "setStats",
                                    !.data = [outcome EXCEPT !.last_updated = now]]]
    /\ last_op' = "raceFetch"
    /\ Untouched({})

\* setPlatformStats; the popup then keeps the data in its platformStats
RaceSetStats(w) ==
    /\ race.w[w].pc = "setStats"
    /\ LET worker == race.w[w]
           platform == worker.data.platform
           memory == IF worker.kind = "popup"
                     THEN [platformStats EXCEPT ![platform] = worker.data]
                     ELSE platformStats
       IN  /\ stored_stats' = [stored_stats EXCEPT ![platform] =
                                    StatsToStore(worker.data, now)]
           /\ platformStats' = memory
           /\ race' = [race EXCEPT !.w[w] =
                    IF HasRatingHistory(worker.data)
                    THEN [worker EXCEPT !.pc = "getHistory"]
                    ELSE AfterHistory(worker, memory, now)]
    /\ last_op' = "raceSetStats"
    /\ Untouched({"stored_stats", "platformStats"})

\* getPlatformRatingHistory, and the merge into what it returned
RaceGetHistory(w) ==
    /\ race.w[w].pc = "getHistory"
    /\ LET worker == race.w[w]
           platform == worker.data.platform
       IN  race' = [race EXCEPT !.w[w] =
                [worker EXCEPT !.pc = "setHistory",
                               !.read = UpdatedHistory(platform_rating_history[platform],
                                                       worker.data.rating_history,
                                                       platform)]]
    /\ last_op' = "raceGetHistory"
    /\ Untouched({})

\* setPlatformRatingHistory
RaceSetHistory(w) ==
    /\ race.w[w].pc = "setHistory"
    /\ LET worker == race.w[w]
       IN  /\ platform_rating_history' =
                 [platform_rating_history EXCEPT ![worker.data.platform] = worker.read]
           /\ race' = [race EXCEPT !.w[w] = AfterHistory(worker, platformStats, now)]
    /\ last_op' = "raceSetHistory"
    /\ Untouched({"platform_rating_history"})

\* getDailyLogs of processSubmissions, and the merge into what it returned
RaceGetLogs(w) ==
    /\ race.w[w].pc = "getLogs"
    /\ LET worker == race.w[w]
       IN  race' = [race EXCEPT !.w[w] =
                [worker EXCEPT !.pc = "setLogs",
                               !.read = UpdatedLogs(tz, daily_logs, worker.data)]]
    /\ last_op' = "raceGetLogs"
    /\ Untouched({})

\* the set of processSubmissions
RaceSetLogs(w) ==
    /\ race.w[w].pc = "setLogs"
    /\ daily_logs' = race.w[w].read
    /\ dl_writes' = dl_writes + 1
    /\ race' = [race EXCEPT !.w[w] = AfterPlatform(race.w[w], platformStats, now)]
    /\ last_op' = "raceSetLogs"
    /\ Untouched({"daily_logs"})

\* one getPlatformStats of a getAllPlatformStats: of the worker after its
\* loop, of the popup's loadData at the end of handleSync
RaceGetStats(w) ==
    /\ race.w[w].pc \in {"getStats", "reload"}
    /\ LET worker == race.w[w]
           platform == PlatformOrder[worker.j]
           allStats == [worker.allStats EXCEPT ![platform] = stored_stats[platform]]
           last == worker.j = Len(PlatformOrder)
       IN  /\ race' = [race EXCEPT !.w[w] =
                    IF ~last THEN [worker EXCEPT !.j = @ + 1, !.allStats = allStats]
                    ELSE IF worker.pc = "reload" THEN Finished(worker)
                    ELSE [worker EXCEPT !.pc = "setAggregate", !.allStats = allStats,
                                        !.aggregatedStats = AggregatedStats(allStats, now)]]
           /\ platformStats' = IF last /\ worker.pc = "reload" THEN allStats
                               ELSE platformStats
    /\ last_op' = "raceGetStats"
    /\ Untouched({"platformStats"})

\* setAggregatedStats; todayRatings is then built from the same stats
RaceSetAggregate(w) ==
    /\ race.w[w].pc = "setAggregate"
    /\ LET worker == race.w[w]
       IN  /\ aggregated_stats' = worker.aggregatedStats
           /\ race' = [race EXCEPT !.w[w] =
                    [worker EXCEPT !.pc = "getRatings",
                                   !.todayRatings =
                                       TodayRatings(IF worker.kind = "popup"
                                                    THEN platformStats
                                                    ELSE worker.allStats)]]
    /\ last_op' = "raceSetAggregate"
    /\ Untouched({"aggregated_stats"})

\* getRatingHistory of addRatingHistory, and the upsert into what it returned
RaceGetRatings(w) ==
    /\ race.w[w].pc = "getRatings"
    /\ LET worker == race.w[w]
       IN  race' = [race EXCEPT !.w[w] =
                [worker EXCEPT !.pc = "setRatings",
                               !.read = AddedRatingHistory(rating_history, UtcDateOf(now),
                                                           worker.todayRatings)]]
    /\ last_op' = "raceGetRatings"
    /\ Untouched({})

\* the set of addRatingHistory
RaceSetRatings(w) ==
    /\ race.w[w].pc = "setRatings"
    /\ rating_history' = race.w[w].read
    /\ race' = [race EXCEPT !.w[w].pc = "setLastSync"]
    /\ last_op' = "raceSetRatings"
    /\ Untouched({"rating_history"})

RaceSetLastSync(w) ==
    /\ race.w[w].pc = "setLastSync"
    /\ last_sync' = <<now>>
    /\ race' = [race EXCEPT !.w[w].pc = "getAchievements"]
    /\ last_op' = "raceSetLastSync"
    /\ Untouched({"last_sync"})

\* the get of checkAchievements, and its loop over the catalog
RaceGetAchievements(w) ==
    /\ race.w[w].pc = "getAchievements"
    /\ LET worker == race.w[w]
           r == AwardLoop(1, achievements, <<>>, worker.aggregatedStats, now)
       IN  race' = [race EXCEPT !.w[w] =
                IF Len(r.fresh) > 0
                THEN [worker EXCEPT !.pc = "setAchievements", !.read = r.earned]
                ELSE [worker EXCEPT !.pc = "getGoals"]]
    /\ last_op' = "raceGetAchievements"
    /\ Untouched({})

\* the set of checkAchievements
RaceSetAchievements(w) ==
    /\ race.w[w].pc = "setAchievements"
    /\ achievements' = race.w[w].read
    /\ race' = [race EXCEPT !.w[w].pc = "getGoals"]
    /\ last_op' = "raceSetAchievements"
    /\ Untouched({"achievements"})

\* the end of calculateGoalProgress: the popup reloads, the worker is done
AfterGoals(worker) ==
    IF worker.g <= Len(worker.goalsRead) THEN [worker EXCEPT !.pc = "getGoal"]
    ELSE IF worker.kind = "popup"
    THEN [worker EXCEPT !.pc = "reload", !.j = 1,
                        !.allStats = [p \in PlatformSet |-> Null]]
    ELSE Finished(worker)

\* the getGoals of calculateGoalProgress
RaceGetGoals(w) ==
    /\ race.w[w].pc = "getGoals"
    /\ race' = [race EXCEPT !.w[w] =
            AfterGoals([race.w[w] EXCEPT !.goalsRead = goals, !.t = now,
                                         !.g = NextGoal(goals, 1)])]
    /\ last_op' = "raceGetGoals"
    /\ Untouched({})

\* the getGoals of updateGoalProgress, and the change to what it returned
RaceGetGoal(w) ==
    /\ race.w[w].pc = "getGoal"
    /\ LET worker == race.w[w]
           goal == worker.goalsRead[worker.g]
           progress == GoalProgress(tz, goal, worker.aggregatedStats, worker.t)
       IN  race' = [race EXCEPT !.w[w] =
                IF FindGoal(goals, goal.id) = 0
                THEN AfterGoals([worker EXCEPT !.g = NextGoal(worker.goalsRead, @ + 1)])
                ELSE [worker EXCEPT !.pc = "setGoal",
                                    !.read = UpdatedGoals(goals, goal.id, progress, now)]]
    /\ last_op' = "raceGetGoal"
    /\ Untouched({})

\* the set of updateGoalProgress
RaceSetGoal(w) ==
    /\ race.w[w].pc = "setGoal"
    /\ goals' = race.w[w].read
    /\ race' = [race EXCEPT !.w[w] =
            AfterGoals([race.w[w] EXCEPT !.g = NextGoal(race.w[w].goalsRead, @ + 1)])]
    /\ last_op' = "raceSetGoal"
    /\ Untouched({"goals"})

\* what the connector of a platform answers, the same for every pass of a
\* behaviour: its request fails, or it has the data (last_updated apart)
Outcomes(platform) ==
    (IF Throws(platform) THEN {[threw |-> TRUE]} ELSE {}) \cup ConnectorData(platform, 0)

InitRace ==
    /\ InitRun /\ tz = UTC
    /\ InitLogVars /\ InitAchVars /\ InitFnVars
    /\ goals = <<EarlierGoal>>
    /\ last_stats = [total_problems_solved |-> 0]
    /\ usernames \in {[p \in PlatformSet |-> IF p \in S THEN "tourist" ELSE ""] :
                          S \in {{"codeforces"}, {"codeforces", "atcoder"}}}
    /\ settings = DefaultSettings
    /\ InitStorage
    /\ platformStats = [p \in PlatformSet |-> Null]
    /\ sync = IdlePass
    /\ call = NoResult
    /\ \E upstream \in [PlatformSet -> UNION {Outcomes(p) : p \in PlatformSet}] :
            /\ \A p \in PlatformSet : upstream[p] \in Outcomes(p)
            /\ \A p \in PlatformSet :
                    ~IsConfigured(usernames[p]) =>
                        upstream[p] = CHOOSE o \in Outcomes(p) : TRUE
            /\ race = [upstream |-> upstream, overlapped |-> FALSE,
                       w |-> [w \in Workers |-> IdleWorker]]

RaceSteps(w) ==
    \/ RaceFetch(w)
    \/ RaceSetStats(w)
    \/ RaceGetHistory(w)
    \/ RaceSetHistory(w)
    \/ RaceGetLogs(w)
    \/ RaceSetLogs(w)
    \/ RaceGetStats(w)
    \/ RaceSetAggregate(w)
    \/ RaceGetRatings(w)
    \/ RaceSetRatings(w)
    \/ RaceSetLastSync(w)
    \/ RaceGetAchievements(w)
    \/ RaceSetAchievements(w)
    \/ RaceGetGoals(w)
    \/ RaceGetGoal(w)
    \/ RaceSetGoal(w)

NextRace ==
    \/ \E w \in Workers : RaceStart(w, "background")
    \/ \E w \in Workers : RaceStart(w, "popup")
    \/ \E w \in Workers : RaceSteps(w)

SpecRace == InitRace /\ [][NextRace]_vars

----------------------------------------------------------------------------
(* The options page: clearAllData *)

\* getUsernames / getSettings when no user_config is stored
DefaultConfig ==
    [usernames |-> [p \in PlatformSet |-> ""], settings |-> DefaultSettings]

\* clearAllData without its setConfig(config)
ConfigNotRestored(config) == DefaultConfig

\* the configuration after chrome.storage.local.clear() and
\* if (config) setConfig(config)
ConfigAfterClear(config) == IF "null" \in DOMAIN config THEN DefaultConfig ELSE config

\* the two confirm() dialogs, then getConfig, clearAll, setConfig
ClearAllData(confirmed, doubleConfirm) ==
    /\ Idle
    /\ last_op # "clearAllData"
    /\ LET config == [usernames |-> usernames, settings |-> settings]
           after == ConfigAfterClear(config)
       IN  IF confirmed /\ doubleConfirm
           THEN /\ usernames' = after.usernames
                /\ settings' = after.settings
                /\ stored_stats' = [p \in PlatformSet |-> Null]
                /\ platform_rating_history' = [p \in PlatformSet |-> <<>>]
                /\ daily_logs' = <<>>
                /\ aggregated_stats' = Null
                /\ rating_history' = <<>>
                /\ last_sync' = <<>>
                /\ achievements' = <<>>
           ELSE UNCHANGED <<usernames, settings, storageVars, daily_logs, achievements>>
    /\ call' = [called |-> TRUE, op |-> "clearAllData",
                cleared |-> confirmed /\ doubleConfirm,
                config |-> [usernames |-> usernames, settings |-> settings],
                before |-> StoredNow]
    /\ last_op' = "clearAllData"
    /\ UNCHANGED <<dl_writes, last_ts, rerun_logs, sweep, newAchievements, last_total>>
    /\ UNCHANGED <<ops, envVars, goalVars, fnVars, platformStats, sync, race>>

NextClear ==
    \/ ops < MaxClearPasses /\ StartBackgroundSync
    \/ ops < MaxClearPasses /\ StartHandleSync
    \/ PassSteps
    \/ \E confirmed \in BOOLEAN : \E doubleConfirm \in BOOLEAN :
            ClearAllData(confirmed, doubleConfirm)

SpecClear == InitResync /\ [][NextClear]_vars

----------------------------------------------------------------------------
(* Claims about the daily-log merge *)

\* what the claims compare of a log: per entry its date, count and problems
LogView(logs) ==
    [i \in 1..Len(logs) |->
        <<logs[i].date, logs[i].problems_solved, logs[i].problems>>]

\* C1: running processSubmissions with the same payload (carrying solvedAt
\* timestamps) twice in a row leaves, for every date, the same
\* problems_solved and the same problems list as running it once.
C1_IdempotentMerge ==
    (last_op = "processSubmissions" /\ last_ts)
        => LogView(rerun_logs) = LogView(daily_logs)

\* a payload with timestamps was merged into an entry another platform had
\* created, and appended a problem to it
C1_Witness ==
    /\ last_op = "processSubmissions" /\ last_ts
    /\ dl_writes >= 2
    /\ \E i \in 1..Len(daily_logs) :
            /\ Len(daily_logs[i].platforms_used) = 2
            /\ Len(daily_logs[i].problems) >= 2

\* C2: a payload none of whose solved_problems has a solvedAt (or whose
\* solved_problems is empty or missing) changes no daily log entry and
\* causes no write of "daily_logs".
C2_NoTimestampNoWrite ==
    [][(last_op' = "processSubmissions" /\ ~last_ts')
            => (daily_logs' = daily_logs /\ dl_writes' = dl_writes)]_vars

\* a timestamp-less payload was processed while the log had entries
C2_Witness ==
    /\ last_op = "processSubmissions" /\ ~last_ts
    /\ daily_logs # <<>>
    /\ dl_writes >= 1

\* C3: every stored entry has pairwise distinct problem names and a
\* problems_solved equal to the number of distinct names of its date.
C3_DistinctNames ==
    \A i \in 1..Len(daily_logs) :
        LET ps == daily_logs[i].problems
        IN  /\ \A j, k \in 1..Len(ps) : j # k => ps[j].name # ps[k].name
            /\ daily_logs[i].problems_solved = Cardinality({ps[j].name : j \in 1..Len(ps)})

\* C4: after a processSubmissions or addDailyLog that writes, the stored log
\* has at most 365 entries, one entry per date, in descending order of date,
\* and holds exactly the most recent of the dates merged so far; once
\* NumDates (400) distinct dates went in, exactly the 365 most recent remain.
C4_CapAndOrder ==
    (last_op \in {"processSubmissions", "addDailyLog"} /\ dl_writes > 0) =>
        LET kept == {daily_logs[i].date : i \in 1..Len(daily_logs)}
            inserted == SweepDates(sweep, ops)
        IN  /\ Len(daily_logs) <= DailyLogCap
            /\ Cardinality(kept) = Len(daily_logs)
            /\ \A i \in 1..(Len(daily_logs) - 1) :
                    daily_logs[i].date > daily_logs[i + 1].date
            /\ kept \subseteq inserted
            /\ Cardinality(kept) =
                    IF Cardinality(inserted) < DailyLogCap
                    THEN Cardinality(inserted) ELSE DailyLogCap
            /\ \A d \in inserted \ kept : \A e \in kept : d < e
            /\ ops = NumDates =>
                    kept = (FirstDate + NumDates - DailyLogCap)..(FirstDate + NumDates - 1)

\* all NumDates dates went in, outwards from the middle, and the log is full
C4_Witness ==
    /\ sweep = "out"
    /\ ops = NumDates
    /\ last_op \in {"processSubmissions", "addDailyLog"}
    /\ Len(daily_logs) = DailyLogCap

----------------------------------------------------------------------------
(* Claims about achievements *)

EarnedIds(earned) == {earned[i].id : i \in 1..Len(earned)}

\* C5: over consecutive checkAchievements calls an id is in the stored
\* earned collection at most once, an entry once stored stays stored with
\* its earned_at whatever the later stats are, and a call returns as new
\* only ids that were not earned before it.
C5_AchievementsOnce ==
    /\ [](Cardinality(EarnedIds(achievements)) = Len(achievements))
    /\ [][/\ \A a \in Range(achievements) : a \in Range(achievements')
          /\ \A a \in Range(newAchievements') : a.id \notin EarnedIds(achievements)]_vars

\* solve_100 was earned in an earlier call, the last call had a total below
\* 100 and still unlocked something else
C5_Witness ==
    /\ last_op = "checkAchievements"
    /\ last_total < 100
    /\ newAchievements # <<>>
    /\ \E a \in Range(achievements) :
            a.id = "solve_100" /\ a.earned_at + ClockStep < now

----------------------------------------------------------------------------
(* Claims about goals *)

\* C6: once calculateGoalProgress has set a goal's completed and stamped
\* completed_at, every later calculateGoalProgress leaves the goal completed
\* with the same completed_at, whatever progress the new stats give.
C6_CompletionOneWay ==
    /\ [](\A i \in 1..Len(goals) :
            goals[i].completed => "completed_at" \in DOMAIN goals[i])
    /\ [][last_op' = "calculateGoalProgress" =>
            \A i \in 1..Len(goals) :
                goals[i].completed =>
                    /\ i <= Len(goals')
                    /\ goals'[i].id = goals[i].id
                    /\ goals'[i].completed
                    /\ "completed_at" \in DOMAIN goals'[i]
                    /\ goals'[i].completed_at = goals[i].completed_at]_vars

\* a streak goal completed by an earlier recomputation went through a
\* recomputation whose stats give it a progress of 0, below its target
C6_Witness ==
    /\ last_op = "calculateGoalProgress"
    /\ "current_streak" \notin DOMAIN last_stats
    /\ \E i \in 1..Len(goals) :
            /\ goals[i].type = "streak"
            /\ goals[i].completed
            /\ goals[i].completed_at + ClockStep < now

----------------------------------------------------------------------------
(* Claims about calculateStreak *)

\* the logs of C7: problems_solved = 1 on D-6..D except 0 on D-3
SixOfSeven ==
    /\ Len(dailyLogsArg) >= 7
    /\ \A i \in 1..Len(dailyLogsArg) :
            /\ dailyLogsArg[i].date = LastDay + 1 - i
            /\ dailyLogsArg[i].problems_solved = IF i = 4 \/ i > 7 THEN 0 ELSE 1

EvaluatedOnLastDay == LocalDate(tz, now) = LastDay

----------------------------------------------------------------------------
(* Claims about updateComparison *)

Rendered ==
    /\ last_op = "updateComparison"
    /\ elements.comparisonResults.innerHTML.class = "comparison-summary"

\* n tenths is the value 100 * change / first rounded to one decimal: the
\* magnitude is within half a tenth, and a value halfway is rounded up
NearestTenth(n, change, first) ==
    LET mag == IF change < 0 THEN -change ELSE change
        diff == 2 * (n * first - 1000 * mag)
    IN  -first < diff /\ diff <= first

\* C8: for non-negative half sums, percentChange is '0' when both are 0,
\* 'N/A' when only the first is 0, and otherwise (second - first) / first * 100
\* to one decimal ('50.0' for 10 and 15); the quotient is only taken over a
\* first sum that is not 0, and every call renders a result.
C8_PercentChange ==
    /\ last_op = "updateComparison" =>
            elements.comparisonResults.innerHTML.class
                \in {"empty-state", "comparison-summary"}
    /\ Rendered =>
        LET html == elements.comparisonResults.innerHTML
            first == html.firstHalfProblems
            second == html.secondHalfProblems
        IN  /\ first >= 0 /\ second >= 0
            /\ (first = 0 /\ second = 0) => html.percentChange = "0"
            /\ (first = 0 /\ second # 0) => html.percentChange = "N/A"
            /\ (first = 10 /\ second = 15) => html.percentChange = "50.0"
            /\ first # 0 =>
                    \E n \in 0..((1000 * (first + second)) \div first + 1) :
                        /\ NearestTenth(n, second - first, first)
                        /\ html.percentChange =
                              (IF second < first THEN "-" ELSE "")
                                  \o ToString(n \div 10) \o "." \o ToString(n % 10)

C8_Witness ==
    /\ Rendered
    /\ elements.comparisonResults.innerHTML.firstHalfProblems = 10
    /\ elements.comparisonResults.innerHTML.secondHalfProblems = 15
    /\ elements.comparisonResults.innerHTML.percentChange = "50.0"

----------------------------------------------------------------------------
(* Claims about calculateAggregatedStats *)

\* the platforms whose record counts towards the average: a record with a
\* rating above 0
Rated ==
    {p \in DOMAIN platformStatsArg :
        /\ platformStatsArg[p] # Null
        /\ "rating" \in DOMAIN platformStatsArg[p]
        /\ platformStatsArg[p].rating > 0}

RatedSum == SumOver(Rated, [p \in Rated |-> platformStatsArg[p].rating])

\* C9: average_rating is the rounded mean of the strictly positive ratings
\* only, and 0 when no platform has one.
C9_AverageRating ==
    aggregated.called =>
        LET count == Cardinality(Rated)
            avg == aggregated.average_rating
        IN  IF count = 0 THEN avg = 0
            ELSE /\ 2 * RatedSum - count < 2 * count * avg
                 /\ 2 * count * avg <= 2 * RatedSum + count

\* one platform rated 1500, one rated 0, one with nothing stored: 1500
C9_Witness ==
    /\ aggregated.called
    /\ platformStatsArg["codeforces"] # Null
    /\ platformStatsArg["leetcode"] # Null
    /\ Truthy(platformStatsArg["codeforces"], "rating")
    /\ platformStatsArg["codeforces"].rating = 1500
    /\ "rating" \in DOMAIN platformStatsArg["leetcode"]
    /\ platformStatsArg["leetcode"].rating = 0
    /\ platformStatsArg["atcoder"] = Null
    /\ aggregated.average_rating = 1500

----------------------------------------------------------------------------
(* Claims about the sync pass *)

InLoop == sync.pc = "loop"

PastLoop == sync.pc \in {"aggregate", "ratings", "last_sync", "achievements",
                         "goals", "reload"}

\* the platforms with a username that is neither empty nor blank, in order
NonBlank ==
    SelectSeq(PlatformOrder, LAMBDA p : usernames[p] \notin {"", "  "})

PassComplete ==
    /\ sync.pc = "done"
    /\ sync.attempted = NonBlank
    /\ sync.steps = PostLoopSteps

C10_Progress ==
    /\ (InLoop \/ PastLoop) =>
            /\ [k \in 1..Len(sync.configuredPlatforms) |->
                     sync.configuredPlatforms[k].platform] = NonBlank
            /\ Len(NonBlank) > 0
    /\ InLoop => sync.attempted = SubSeq(NonBlank, 1, sync.i - 1)
    /\ PastLoop =>
            /\ sync.attempted = NonBlank
            /\ sync.kind = "background" =>
                    sync.successCount + sync.errorCount = Len(NonBlank)
            /\ sync.steps = SubSeq(PostLoopSteps, 1, Len(sync.steps))
    /\ (sync.pc = "done" /\ Len(sync.attempted) > 0) => PassComplete

\* C10: a connector failure never aborts a sync pass.  While the loop runs
\* the platforms attempted are the configured ones (non-blank username) up
\* to the current one, once each and in order; when the loop has ended all
\* of them have been attempted and, in the background worker,
\* successCount + errorCount is their number; and a pass that entered the
\* loop goes on to run the five post-loop steps in order and ends.
C10_NoAbort == []C10_Progress /\ (InLoop ~> PassComplete)

\* a pass of the background worker has ended after a failed and a
\* successful fetch, with every post-loop step run
C10_Witness ==
    /\ PassComplete
    /\ sync.kind = "background"
    /\ sync.errorCount >= 1 /\ sync.successCount >= 1
    /\ last_sync # <<>>

\* two stored stats are the same apart from their last_updated stamp
SameStats(a, b) ==
    /\ DOMAIN a = DOMAIN b
    /\ \A f \in DOMAIN a \ {"last_updated"} : a[f] = b[f]

\* the iteration just taken was one whose request failed
FailedIteration ==
    /\ sync.pc = "loop"
    /\ Len(sync'.failed) = Len(sync.failed) + 1

\* C11, as stated: a platform whose fetch failed during the pass keeps its
\* stored stats and its stored rating history as they were when the pass
\* began, and the iteration for it leaves the daily log as it was.
C11_FailureKeepsCache ==
    /\ [](\A k \in 1..Len(sync.failed) :
            LET p == sync.failed[k]
            IN  /\ SameStats(stored_stats[p], sync.before.stats[p])
                /\ platform_rating_history[p] = sync.before.history[p])
    /\ [][FailedIteration => daily_logs' = daily_logs]_vars

\* the pass that just ended ran its loop and its post-loop steps, and so did
\* the pass before it, on the same UTC day and with the same connector
\* results
SecondOfTwoAlike ==
    /\ sync.pc = "done" /\ sync.steps = PostLoopSteps
    /\ sync.prev.kind # "none"
    /\ sync.prev.results = sync.results
    /\ UtcDateOf(sync.prev.started) = UtcDateOf(sync.started)

\* what is stored equals what was stored when the pass began, apart from
\* the last_updated stamps (last_sync is left out)
StoredAsBefore ==
    /\ \A p \in PlatformSet : SameStats(stored_stats[p], sync.before.stats[p])
    /\ platform_rating_history = sync.before.history
    /\ daily_logs = sync.before.logs
    /\ rating_history = sync.before.rating_history
    /\ SameStats(aggregated_stats, sync.before.aggregated_stats)
    /\ achievements = sync.before.achievements
    /\ goals = sync.before.goals

\* C12, as stated: a complete pass followed by a second complete pass with
\* identical connector results on the same calendar day leaves everything
\* stored as the first pass left it, apart from the timestamps.
C12_Idempotent == SecondOfTwoAlike => StoredAsBefore

\* the aggregate of the pass has just been stored
AggregateStored == sync.pc = "ratings"

\* C13, as stated: the aggregate is recomputed only after the iteration of
\* every configured platform has ended (completed or failed), and what the
\* pass stores as aggregated_stats is calculateAggregatedStats of the
\* per-platform stats that are in storage at that moment.
C13_AggregateOfStored ==
    AggregateStored =>
        /\ Len(sync.attempted) = Len(sync.configuredPlatforms)
        /\ SameStats(aggregated_stats, AggregatedStats(stored_stats, now))

\* the dates of the entries of a history
DatesOf(history) == {history[k].date : k \in 1..Len(history)}

\* the last entry of a history with a date
LastWithDate(history, date) ==
    history[CHOOSE k \in 1..Len(history) :
                /\ history[k].date = date
                /\ \A j \in (k + 1)..Len(history) : history[j].date # date]

Merged == call.called /\ call.op = "mergeRatingHistory"

\* C14: the per-platform rating-history merge is an upsert keyed by date.
\* After a merge the stored history has one entry per date, an incoming
\* entry has replaced the stored one of its date, the stored entries of the
\* other dates are as they were, the history ascends by timestamp, and
\* merging the same data once more changes nothing; data with an empty or
\* no rating_history leaves the stored history as it was.
C14_KeyedUpsert ==
    Merged =>
        LET stored == platform_rating_history[call.data.platform]
            incoming == IF "rating_history" \in DOMAIN call.data
                        THEN call.data.rating_history ELSE <<>>
        IN  IF Len(incoming) = 0 THEN stored = call.history
            ELSE /\ \A j, k \in 1..Len(stored) : stored[j].date = stored[k].date => j = k
                 /\ DatesOf(stored) = DatesOf(call.history) \cup DatesOf(incoming)
                 /\ \A k \in 1..Len(stored) :
                        IF stored[k].date \in DatesOf(incoming)
                        THEN /\ stored[k].new_rating =
                                    LastWithDate(incoming, stored[k].date).new_rating
                             /\ stored[k].platform = call.data.platform
                        ELSE stored[k] \in Range(call.history)
                 /\ \A j, k \in 1..Len(stored) :
                        j < k => stored[j].timestamp < stored[k].timestamp
                 /\ call.remerged = stored

\* a stored entry was replaced by an incoming one of its date and another
\* stored entry was kept
C14_Witness ==
    /\ Merged
    /\ "rating_history" \in DOMAIN call.data
    /\ \E d \in DatesOf(call.history) \cap DatesOf(call.data.rating_history) :
            LastWithDate(call.history, d).new_rating #
                LastWithDate(call.data.rating_history, d).new_rating
    /\ DatesOf(call.history) \ DatesOf(call.data.rating_history) # {}

Snapshotted == call.called /\ call.op = "addRatingHistory"

\* the entries of a history whose date is not the given one
OtherDates(history, date) == {e \in Range(history) : e.date # date}

\* C15: after every addRatingHistory call the combined history has one
\* entry per date and ascends by date, the entry of the date of the call is
\* the date with exactly the ratings of that call (a platform an earlier
\* snapshot of the date had and this one lacks is gone), and the entries of
\* the other dates are as they were.
C15_SnapshotUpsert ==
    /\ \A j, k \in 1..Len(rating_history) :
            j < k => rating_history[j].date < rating_history[k].date
    /\ Snapshotted =>
            /\ \E k \in 1..Len(rating_history) :
                    /\ rating_history[k].date = call.date
                    /\ DOMAIN rating_history[k] = {"date"} \cup DOMAIN call.ratings
                    /\ \A p \in DOMAIN call.ratings :
                            rating_history[k][p] = call.ratings[p]
            /\ OtherDates(rating_history, call.date) = OtherDates(call.history, call.date)

\* a snapshot replaced one of its date that had a platform it lacks, in a
\* history that has a later date too
C15_Witness ==
    /\ Snapshotted
    /\ \E e \in Range(call.history) :
            /\ e.date = call.date
            /\ DOMAIN e \ ({"date"} \cup DOMAIN call.ratings) # {}
    /\ \E e \in Range(call.history) : e.date > call.date

\* a pass has begun and no platform has a username that is not blank
NothingConfigured ==
    /\ sync.kind # "none"
    /\ \A p \in PlatformSet : usernames[p] \in {"", "  "}

\* every stored item is as it was when the pass began
NothingWritten ==
    /\ stored_stats = sync.before.stats
    /\ platform_rating_history = sync.before.history
    /\ daily_logs = sync.before.logs
    /\ aggregated_stats = sync.before.aggregated_stats
    /\ rating_history = sync.before.rating_history
    /\ last_sync = sync.before.last_sync
    /\ achievements = sync.before.achievements
    /\ goals = sync.before.goals

\* C16: when no platform has a non-blank username a pass is a no-op: it
\* has returned as soon as it began, no connector was called, no step after
\* the loop ran, and nothing stored has changed.
C16_NoUsernamesNoOp ==
    NothingConfigured =>
        /\ sync.pc = "done"
        /\ sync.attempted = <<>> /\ sync.results = <<>> /\ sync.steps = <<>>
        /\ NothingWritten

\* a pass of the popup ended so, with a blank username configured, after a
\* pass of the worker
C16_Witness ==
    /\ NothingConfigured
    /\ \E p \in PlatformSet : usernames[p] = "  "
    /\ sync.kind = "popup" /\ sync.prev.kind = "background"
    /\ sync.pc = "done"

\* the MANUAL_SYNC message of a pass in which storage failed was answered
AnsweredAfterStorageError ==
    sync.storageError /\ sync.trigger = "MANUAL_SYNC" /\ sync.settled # "pending"

\* C17, as stated: a pass in which storage failed reports an overall
\* failure to its caller: the MANUAL_SYNC message is answered with
\* success = false, and the popup's manual sync alerts 'Sync failed'.
C17_StorageErrorSurfaced ==
    /\ AnsweredAfterStorageError => sync.response.success = FALSE
    /\ (sync.storageError /\ sync.kind = "popup" /\ sync.pc = "done") =>
            sync.alert = "Sync failed! Check console for details."

\* what a single pass, run alone from the empty storage, stores for a
\* platform: the data of its connector, or nothing when it is not
\* configured or its request fails
AloneStats ==
    [p \in PlatformSet |->
        IF IsConfigured(usernames[p]) /\ "threw" \notin DOMAIN race.upstream[p]
        THEN race.upstream[p] ELSE Null]

\* the daily log such a pass leaves: processSubmissions of each platform
\* in turn, from the platform k on
RECURSIVE AloneLogs(_, _)
AloneLogs(logs, k) ==
    IF k > Len(PlatformOrder) THEN logs
    ELSE LET data == AloneStats[PlatformOrder[k]]
         IN  AloneLogs(IF "null" \in DOMAIN data \/ NoSolvedProblems(data)
                          \/ ~HasTimestamps(data)
                       THEN logs ELSE UpdatedLogs(tz, logs, data),
                       k + 1)

\* per date: the count and the names of the problems
DayView(logs) ==
    {[date |-> logs[k].date, problems_solved |-> logs[k].problems_solved,
      names |-> {logs[k].problems[m].name : m \in 1..Len(logs[k].problems)}] :
        k \in 1..Len(logs)}

\* no pass is running, and the last one to end began after two others had
\* ended and ran with no other beside it
FurtherPassAlone ==
    /\ \A w \in Workers : ~Running(race.w[w])
    /\ ops >= 3
    /\ \E w \in Workers : race.w[w].n = ops /\ race.w[w].alone

C19_AppendOnly ==
    [][\A k \in 1..Len(achievements) :
          \E j \in 1..Len(achievements') : achievements'[j] = achievements[k]]_vars

\* C20, as stated: whatever the order of the recomputations of the passes
\* and of direct updateGoalProgress calls, a stored goal never goes from
\* completed to not completed, it is completed exactly when some write of
\* its progress reached the target (when it has a completed_at), and its
\* completed_at never changes once set.
C20_CompletedOneWay ==
    /\ [](\A i \in 1..Len(goals) :
            goals[i].completed <=> "completed_at" \in DOMAIN goals[i])
    /\ [][\A i \in 1..Len(goals) : \A j \in 1..Len(goals') :
            goals'[j].id = goals[i].id =>
                /\ goals[i].completed => goals'[j].completed
                /\ "completed_at" \in DOMAIN goals[i] =>
                        /\ "completed_at" \in DOMAIN goals'[j]
                        /\ goals'[j].completed_at = goals[i].completed_at]_vars

\* clearAllData was the last operation and both dialogs were confirmed
Cleared == call.called /\ call.op = "clearAllData" /\ call.cleared
              /\ last_op = "clearAllData"

SolvedSinceDay(logs, since) ==
    SumSolved(SelectSeq(logs, LAMBDA log : log.date >= since), 1)

\* what the claim says the progress of an uncompleted goal is after a pass
ProgressFromLogs(goal) ==
    LET today == LocalDate(tz, now)
    IN  CASE goal.type = "weekly" -> SolvedSinceDay(daily_logs, today - Weekday(today))
          [] goal.type = "monthly" -> SolvedSinceDay(daily_logs, MonthStart(today))
          [] goal.type = "streak" -> CalculateStreakResult(tz, daily_logs, now).current
          [] OTHER -> goal.progress

\* a pass has run its loop and every step after it
PassRanThrough == sync.pc = "done" /\ sync.steps = PostLoopSteps

\* C22, as stated: after a sync pass the stored progress of every
\* uncompleted weekly goal is the sum of problems_solved over the stored
\* daily-log entries since the most recent Sunday, of every uncompleted
\* monthly goal the sum since day 1 of the month, and of every uncompleted
\* streak goal the current streak of the daily logs.
C22_ProgressFromLogs ==
    PassRanThrough =>
        \A i \in 1..Len(goals) :
            ~goals[i].completed => goals[i].progress = ProgressFromLogs(goals[i])

\* a field of a stored stats record, 0 when nothing is stored or it lacks it
StoredField(p, field) ==
    IF "null" \in DOMAIN stored_stats[p] \/ field \notin DOMAIN stored_stats[p] THEN 0
    ELSE stored_stats[p][field]

\* the rule of a catalog entry, of what is stored now
RuleHolds(achievement) ==
    CASE achievement.type = "streak" ->
            CalculateStreakResult(tz, daily_logs, now).current >= achievement.threshold
      [] achievement.type = "platforms" ->
            Cardinality({p \in PlatformSet : StoredField(p, "problems_solved") > 0})
                >= achievement.threshold
      [] achievement.type = "daily" ->
            \E k \in 1..Len(daily_logs) :
                /\ daily_logs[k].date = UtcDateOf(now)
                /\ daily_logs[k].problems_solved >= achievement.threshold
      [] OTHER ->
            IF achievement.platform # "none"
            THEN StoredField(achievement.platform, "rating") >= achievement.threshold
            ELSE aggregated_stats.total_problems_solved >= achievement.threshold

IdsOf(earned) == {earned[k].id : k \in 1..Len(earned)}

\* the achievement evaluation of a pass has just run
AchievementsEvaluated == sync.pc = "goals" /\ last_op = "checkAchievements"

\* C23, as stated: in the achievement evaluation of a pass every catalog
\* entry that was not earned before is awarded exactly when its rule holds
\* of the current state (streak, active platforms, today's log, the
\* platform's rating, or the total of solved problems).
C23_AwardedByRule ==
    AchievementsEvaluated =>
        \A k \in 1..Len(Catalog) :
            Catalog[k].id \notin IdsOf(achievements) \ IdsOf(newAchievements) =>
                (Catalog[k].id \in IdsOf(newAchievements) <=> RuleHolds(Catalog[k]))

\* calculateGoalProgress has just run with stats that have a record of the
\* platform of the goal
RatingRecomputed(goal) ==
    /\ last_op = "calculateGoalProgress"
    /\ goal.type = "rating" /\ ~goal.completed
    /\ "platforms" \in DOMAIN last_stats
    /\ goal.platform \in DOMAIN last_stats.platforms

\* C24, as stated: calculateGoalProgress sets the progress of an uncompleted
\* rating goal to the current rating of its platform minus the
\* initial_rating captured when the goal was created, also when that
\* baseline is 0, and to a negative number when the rating has dropped
\* below the baseline.
C24_RatingProgress ==
    \A i \in 1..Len(goals) :
        RatingRecomputed(goals[i]) =>
            goals[i].progress =
                last_stats.platforms[goals[i].platform].rating - goals[i].initial_rating

----------------------------------------------------------------------------
(* Claims about the runs of calculateStreak *)

\* the dates of the logs with problems_solved > 0
SolvedDates ==
    {dailyLogsArg[i].date : i \in {j \in 1..Len(dailyLogsArg) :
                                        dailyLogsArg[j].problems_solved > 0}}

\* the length of the maximal run of consecutive calendar days that ends on d
RunEndingOn(d) ==
    CHOOSE n \in 1..(WindowDays + 1) :
        /\ \A k \in 0..(n - 1) : d - k \in SolvedDates
        /\ d - n \notin SolvedDates

LatestDate == CHOOSE d \in SolvedDates : \A e \in SolvedDates : e <= d

LongestRun ==
    CHOOSE n \in {RunEndingOn(d) : d \in SolvedDates} :
        \A d \in SolvedDates : RunEndingOn(d) <= n

CurrentRun ==
    IF LatestDate \in {LocalDate(tz, now), LocalDate(tz, now) - 1}
    THEN RunEndingOn(LatestDate) ELSE 0

\* C25, as stated: longest is the length of the longest maximal run of
\* consecutive calendar days with problems solved, current is the length of
\* the run with the latest end date when that date is today or yesterday and
\* 0 otherwise, current <= longest, and logs without a solved day give 0 and 0.
C25_StreakRuns ==
    streak.called =>
        /\ streak.current <= streak.longest
        /\ SolvedDates = {} => (streak.current = 0 /\ streak.longest = 0)
        /\ SolvedDates # {} =>
                (streak.longest = LongestRun /\ streak.current = CurrentRun)

----------------------------------------------------------------------------
(* Claims about the sums of calculateAggregatedStats *)

\* the platforms with a non-null record
Recorded == {p \in DOMAIN platformStatsArg : platformStatsArg[p] # Null}

\* the value of a numeric field of the record of p, 0 when it has none
FieldOf(p, field) ==
    IF field \in DOMAIN platformStatsArg[p] THEN platformStatsArg[p][field] ELSE 0

\* the platforms whose tag_distribution has the tag
Tagged(tag) ==
    {p \in Recorded : /\ "tag_distribution" \in DOMAIN platformStatsArg[p]
                      /\ tag \in DOMAIN platformStatsArg[p].tag_distribution}

\* C26: the aggregate is determined by the per-platform records alone:
\* total_problems_solved and total_contests are the sums over the non-null
\* records, platforms_active is the number of non-null records whatever their
\* problems_solved, and category_mastery has exactly the tags some platform
\* has, each with the sum of its counts and with the platforms that have it,
\* each once.
C26_AggregateSums ==
    aggregated.called =>
        /\ aggregated.total_problems_solved =
                SumOver(Recorded, [p \in Recorded |-> FieldOf(p, "problems_solved")])
        /\ aggregated.total_contests =
                SumOver(Recorded, [p \in Recorded |-> FieldOf(p, "contests_participated")])
        /\ aggregated.platforms_active = Cardinality(Recorded)
        /\ DOMAIN aggregated.category_mastery = {tag \in Range(TagOrder) : Tagged(tag) # {}}
        /\ \A tag \in DOMAIN aggregated.category_mastery :
                LET mastery == aggregated.category_mastery[tag]
                IN  /\ mastery.solved =
                            SumOver(Tagged(tag),
                                    [p \in Tagged(tag) |->
                                        platformStatsArg[p].tag_distribution[tag]])
                    /\ Range(mastery.platforms) = Tagged(tag)
                    /\ Len(mastery.platforms) = Cardinality(Tagged(tag))

\* two platforms with the tag dp (4 and 2 solved), the third with a record
\* of a failed fetch that has problems_solved = 0
C26_Witness ==
    /\ aggregated.called
    /\ Tagged("dp") = {"codeforces", "leetcode"}
    /\ aggregated.category_mastery["dp"].solved = 6
    /\ Recorded = PlatformSet
    /\ FieldOf("atcoder", "problems_solved") = 0
    /\ aggregated.platforms_active = 3

----------------------------------------------------------------------------
(* AnalyticsEngine.generateInsights *)

DayNames ==
    <<"Sunday", "Monday", "Tuesday", "Wednesday", "Thursday", "Friday", "Saturday">>

\* weekdayStats after the forEach over recentLogs: getDay() of the parsed
\* date is the key, log.problems_solved || 0 is added
WeekdayStats(z, recentLogs) ==
    [day \in 0..6 |->
        LET on == {i \in 1..Len(recentLogs) :
                        Weekday(LocalDate(z, DateParse(recentLogs[i].date))) = day}
        IN  SumOver(on, [i \in on |->
                            IF "problems_solved" \in DOMAIN recentLogs[i]
                            THEN recentLogs[i].problems_solved ELSE 0])]

\* Object.keys(weekdayStats).reduce((a, b) => weekdayStats[a] > weekdayStats[b] ? a : b)
RECURSIVE MaxDay(_, _, _)
MaxDay(weekdayStats, a, b) ==
    IF b > 6 THEN a
    ELSE MaxDay(weekdayStats, IF weekdayStats[a] > weekdayStats[b] THEN a ELSE b, b + 1)

\* the pattern insight (the icon of an insight is left out)
PatternInsights(z, logs) ==
    IF Len(logs) > 0
    THEN <<[type |-> "pattern",
            message |-> [text |-> "You solve most problems on",
                         day |-> DayNames[MaxDay(WeekdayStats(z, Take(logs, 30)), 0, 1) + 1]]]>>
    ELSE <<>>

\* ratingHistory.slice(-5)
RecentRatings(ratingHistory) ==
    SubSeq(ratingHistory,
           IF Len(ratingHistory) > 5 THEN Len(ratingHistory) - 4 ELSE 1,
           Len(ratingHistory))

\* one element of ratingChanges: 0 for the first entry, otherwise the sum
\* over the platforms of the entry of (entry[p] - recent[i-1][p] || 0); the
\* difference is NaN, hence 0, when the entry before has no rating of p
RatingChange(recent, i) ==
    IF i = 1 THEN 0
    ELSE LET platforms == DOMAIN recent[i] \ {"date"}
         IN  SumOver(platforms,
                     [p \in platforms |->
                        IF p \in DOMAIN recent[i - 1]
                        THEN recent[i][p] - recent[i - 1][p] ELSE 0])

\* ratingChanges.reduce((a, b) => a + b, 0)
RatingChangeSum(recent) ==
    SumOver(1..Len(recent), [i \in 1..Len(recent) |-> RatingChange(recent, i)])

\* the trend insight: avgChange = sum / ratingChanges.length is compared
\* with 20 and -20
TrendInsights(ratingHistory) ==
    IF Len(ratingHistory) > 5
    THEN LET recent == RecentRatings(ratingHistory)
             sum == RatingChangeSum(recent)
         IN  IF sum > 20 * Len(recent)
             THEN <<[type |-> "achievement",
                     message |-> [text |-> "Great progress! Your rating is trending upward"]]>>
             ELSE IF sum < (-20) * Len(recent)
             THEN <<[type |-> "warning",
                     message |-> [text |-> "Focus on practice to recover your rating"]]>>
             ELSE <<>>
    ELSE <<>>

\* Object.entries(category_mastery): the tags in the order of insertion,
\* which for the records of the model is TagOrder
CategoryEntries(category_mastery) ==
    LET present == SelectSeq(TagOrder, LAMBDA tag : tag \in DOMAIN category_mastery)
    IN  [i \in 1..Len(present) |-> <<present[i], category_mastery[present[i]]>>]

\* (a, b) => a[1].solved - b[1].solved
SolvedAscOrder(a, b) == a[2].solved - b[2].solved < 0

WeakAreaInsights(platformStats_, t) ==
    LET aggregated_ == AggregatedStats(platformStats_, t)
        categories == Take(SortSeq(CategoryEntries(aggregated_.category_mastery),
                                   SolvedAscOrder), 2)
    IN  IF Len(categories) > 0
        THEN <<[type |-> "recommendation",
                message |-> [text |-> "Practice more", category |-> categories[1][1],
                             solved |-> categories[1][2].solved]]>>
        ELSE <<>>

\* generateInsights(platformStats, dailyLogs, ratingHistory)
Insights(z, platformStats_, logs, ratingHistory, t) ==
    PatternInsights(z, logs) \o TrendInsights(ratingHistory)
        \o WeakAreaInsights(platformStats_, t)

\* the deltas of the Codeforces rating between two entries of a history
RatingDeltas == {-30, 0, 22, 30}

\* a stored rating history (the entries of addRatingHistory): Codeforces
\* from 1500 on with the given deltas; LeetCode never, in every entry, or
\* only in the last two entries
HistoryOf(deltas, leetcode) ==
    [i \in 1..(Len(deltas) + 1) |->
        LET rating == 1500 + SumOver(1..(i - 1), [j \in 1..(i - 1) |-> deltas[j]])
        IN  IF leetcode = "all" \/ (leetcode = "late" /\ i >= Len(deltas))
            THEN [date |-> i, codeforces |-> rating, leetcode |-> 1000 + 5 * i]
            ELSE [date |-> i, codeforces |-> rating]]

RatingHistories ==
    {<<>>} \cup
    {HistoryOf(deltas, leetcode) :
        deltas \in UNION {[1..n -> RatingDeltas] : n \in 3..5},
        leetcode \in {"none", "all", "late"}}

InsightLogs ==
    {<<>>,
     <<[date |-> 10, problems_solved |-> 2], [date |-> 9, problems_solved |-> 2]>>,
     <<[date |-> 10], [date |-> 8, problems_solved |-> 1]>>}

InsightStats ==
    {[p \in PlatformSet |-> Null],
     [p \in PlatformSet |-> IF p = "codeforces" THEN
                                [problems_solved |-> 10, rating |-> 1500,
                                 tag_distribution |-> [dp |-> 2, math |-> 1]]
                            ELSE Null]}

GenerateInsights ==
    /\ ~call.called
    /\ \E platformStats_ \in InsightStats, logs \in InsightLogs,
          ratingHistory \in RatingHistories :
            call' = [called |-> TRUE, op |-> "generateInsights",
                     platformStats |-> platformStats_, dailyLogs |-> logs,
                     ratingHistory |-> ratingHistory,
                     insights |-> Insights(tz, platformStats_, logs, ratingHistory, now)]
    /\ last_op' = "generateInsights"
    /\ ops' = ops + 1
    /\ UNCHANGED <<envVars, logVars, achVars, goalVars, fnVars, syncVars, race>>

----------------------------------------------------------------------------
(* AnalyticsEngine.generateRecommendations *)

\* the platforms of getAllPlatformStats, in the order of its list, which is
\* the order of Object.entries(platformStats)
AllPlatforms ==
    <<"codeforces", "leetcode", "atcoder", "codechef", "hackerrank",
      "cses", "spoj", "topcoder", "uva", "geeksforgeeks">>

\* !stats || stats.problems_solved === 0
Inactive(stats) ==
    \/ "null" \in DOMAIN stats
    \/ ("problems_solved" \in DOMAIN stats /\ stats.problems_solved = 0)

InactivePlatforms(platformStats_) ==
    SelectSeq(AllPlatforms, LAMBDA platform : Inactive(platformStats_[platform]))

WeaknessFix(aggregatedStats) ==
    IF "category_mastery" \in DOMAIN aggregatedStats
    THEN LET sortedCategories ==
                SortSeq(CategoryEntries(aggregatedStats.category_mastery), SolvedAscOrder)
         IN  IF Len(sortedCategories) > 0
             THEN <<[type |-> "weakness_fix", priority |-> "high",
                     category |-> sortedCategories[1][1],
                     message |-> [text |-> "Improve", category |-> sortedCategories[1][1],
                                  solved |-> sortedCategories[1][2].solved],
                     action |-> [text |-> "Solve 5 problems this week",
                                 category |-> sortedCategories[1][1]]]>>
             ELSE <<>>
    ELSE <<>>

Explore(platformStats_) ==
    LET inactivePlatforms == InactivePlatforms(platformStats_)
    IN  IF Len(inactivePlatforms) > 0 /\ Len(inactivePlatforms) < 5
        THEN <<[type |-> "explore", priority |-> "medium",
                message |-> [text |-> "Try - expand your practice",
                             platform |-> inactivePlatforms[1]],
                action |-> [text |-> "Solve your first problem"]]>>
        ELSE <<>>

\* generateRecommendations(platformStats, aggregatedStats)
Recommendations(platformStats_, aggregatedStats) ==
    WeaknessFix(aggregatedStats) \o Explore(platformStats_)

\* what getAllPlatformStats returns: for each of the ten platforms nothing,
\* a record with problems_solved = 0, or a record with solved problems
AllPlatformStats ==
    [Range(AllPlatforms) ->
        {Null, [problems_solved |-> 0, error |-> "HTTP 404"], [problems_solved |-> 5]}]

\* what getAggregatedStats returns: the default of an empty storage, or a
\* stored aggregate
StoredAggregates ==
    {[total_problems_solved |-> 0, total_contests |-> 0, average_rating |-> 0,
      total_active_days |-> 0, platforms_active |-> 0],
     [total_problems_solved |-> 5, total_contests |-> 0, average_rating |-> 0,
      platforms_active |-> 1,
      category_mastery |-> [dp |-> [solved |-> 3, platforms |-> <<"codeforces">>],
                            math |-> [solved |-> 2, platforms |-> <<"codeforces">>]]]}

GenerateRecommendations ==
    /\ ~call.called
    /\ \E platformStats_ \in AllPlatformStats, aggregatedStats \in StoredAggregates :
            call' = [called |-> TRUE, op |-> "generateRecommendations",
                     platformStats |-> platformStats_,
                     aggregatedStats |-> aggregatedStats,
                     recommendations |-> Recommendations(platformStats_, aggregatedStats)]
    /\ last_op' = "generateRecommendations"
    /\ ops' = ops + 1
    /\ UNCHANGED <<envVars, logVars, achVars, goalVars, fnVars, syncVars, race>>

----------------------------------------------------------------------------
(* AnalyticsEngine.compareTimeframes *)

\* a number and a string, as values of one field
Number(n) == [number |-> n]
String(str) == [string |-> str]

\* stats[field] || 0
OrZero(stats, field) == IF field \in DOMAIN stats THEN stats[field] ELSE 0

\* one entry of comparison after the loop over Object.entries(comparison)
ComparisonEntry(old, new) ==
    [old |-> old, new |-> new, change |-> new - old,
     percentage |-> IF old > 0 THEN String(ToFixed1(new - old, old)) ELSE Number(0)]

\* compareTimeframes(oldStats, newStats)
Comparison(oldStats, newStats) ==
    [problems_solved |-> ComparisonEntry(OrZero(oldStats, "total_problems_solved"),
                                         OrZero(newStats, "total_problems_solved")),
     rating |-> ComparisonEntry(OrZero(oldStats, "average_rating"),
                                OrZero(newStats, "average_rating")),
     contests |-> ComparisonEntry(OrZero(oldStats, "total_contests"),
                                  OrZero(newStats, "total_contests"))]

\* aggregates of two moments: with or without solved problems, a rating
\* and contests
TimeframeStats ==
    [total_problems_solved : {0, 5, 8}, average_rating : {0, 1500, 1600},
     total_contests : {0, 3}]
        \cup [total_problems_solved : {5}, average_rating : {1500}]

CompareTimeframes ==
    /\ ~call.called
    /\ \E oldStats \in TimeframeStats, newStats \in TimeframeStats :
            call' = [called |-> TRUE, op |-> "compareTimeframes",
                     oldStats |-> oldStats, newStats |-> newStats,
                     comparison |-> Comparison(oldStats, newStats)]
    /\ last_op' = "compareTimeframes"
    /\ ops' = ops + 1
    /\ UNCHANGED <<envVars, logVars, achVars, goalVars, fnVars, syncVars, race>>

InitAnalytics ==
    /\ InitRun /\ tz = UTC
    /\ InitLogVars /\ InitAchVars /\ InitGoalVars /\ InitFnVars
    /\ InitSyncVars /\ InitCallVars

NextAnalytics ==
    \/ GenerateInsights
    \/ GenerateRecommendations
    \/ CompareTimeframes

SpecAnalytics == InitAnalytics /\ [][NextAnalytics]_vars

----------------------------------------------------------------------------
(* The background worker: checkAchievements, the dailyCheck alarm and the
   storage.onChanged listener *)

MaxNotifyPasses == 2    \* SpecNotify: sync passes
MaxAlarms == 2          \* SpecNotify: dailyCheck alarms

Milestones == <<100, 250, 500, 1000, 2000, 5000>>

\* the achievements array of checkAchievements: the streak entry, then the
\* milestones the total is equal to
StreakAchievements(current) ==
    IF current = 7
    THEN <<[id |-> "week_streak", title |-> "7 Day Streak!"]>>
    ELSE IF current = 30
    THEN <<[id |-> "month_streak", title |-> "30 Day Streak!"]>>
    ELSE <<>>

MilestoneAchievements(totalProblems) ==
    LET reached == SelectSeq(Milestones, LAMBDA milestone : totalProblems = milestone)
    IN  [i \in 1..Len(reached) |->
            [id |-> "problems_" \o ToString(reached[i]),
             title |-> ToString(reached[i]) \o " Problems Solved!"]]

\* getAggregatedStats: the stored aggregate, or the default
GetAggregatedStats ==
    IF "null" \in DOMAIN aggregated_stats
    THEN [total_problems_solved |-> 0, total_contests |-> 0, average_rating |-> 0,
          total_active_days |-> 0, platforms_active |-> 0]
    ELSE aggregated_stats

\* the notifications checkAchievements creates at the instant t: one for
\* every entry of its achievements array (of a notification the title,
\* the first line of the message and, to tell them apart, the id are kept)
AchievementNotifications(t) ==
    LET streak_ == CalculateStreakResult(tz, daily_logs, t)
        totalProblems == OrZero(GetAggregatedStats, "total_problems_solved")
        unlocked == StreakAchievements(streak_.current)
                        \o MilestoneAchievements(totalProblems)
    IN  [i \in 1..Len(unlocked) |->
            [title |-> "Achievement Unlocked!", message |-> unlocked[i].title,
             id |-> unlocked[i].id, at |-> t]]

\* a change of aggregated_stats has not been delivered to the listener yet
ChangePending == aggregated_stats # call.seen

\* chrome.storage.onChanged with changes.aggregated_stats: checkAchievements
OnStorageChanged ==
    /\ ChangePending
    /\ call' = [call EXCEPT !.called = TRUE, !.seen = aggregated_stats,
                            !.notifications = @ \o AchievementNotifications(now)]
    /\ last_op' = "onChanged"
    /\ UNCHANGED <<ops, envVars, logVars, achVars, goalVars, fnVars, syncVars, race>>

\* the dailyCheck alarm, 24 hours after the instant before: checkAchievements
DailyCheck ==
    /\ Idle /\ ~ChangePending
    /\ call.alarms < MaxAlarms
    /\ now' = now + HoursPerDay
    /\ call' = [call EXCEPT !.called = TRUE, !.alarms = @ + 1,
                            !.notifications = @ \o AchievementNotifications(now')]
    /\ last_op' = "dailyCheck"
    /\ UNCHANGED <<ops, tz, logVars, achVars, goalVars, fnVars, syncVars, race>>

\* the instant of the pass before the first pass of a behaviour
EarlierSync == 9 * HoursPerDay + 12

\* what that pass stored for LeetCode, whose username has been removed since
EarlierStats(solved) ==
    [p \in PlatformSet |->
        IF p = "leetcode"
        THEN StatsToStore([platform |-> "leetcode", problems_solved |-> solved,
                           last_updated |-> EarlierSync], EarlierSync)
        ELSE Null]

\* the numbers of problems LeetCode had then: 2 below a milestone, and few
EarlierSolved == {98, 3}

\* The storage after a pass at EarlierSync: the LeetCode stats, their
\* aggregate, the rating snapshot, last_sync and the achievements earned;
\* the listener has seen that aggregate.  Codeforces is configured now,
\* AtCoder may be.
InitNotify ==
    /\ InitRun /\ tz = UTC
    /\ InitLogVars /\ InitFnVars /\ InitGoalVars
    /\ usernames \in {[p \in PlatformSet |-> IF p \in S THEN "tourist" ELSE ""] :
                          S \in {{"codeforces"}, {"codeforces", "atcoder"}}}
    /\ settings = DefaultSettings
    /\ \E solved \in EarlierSolved :
            /\ stored_stats = EarlierStats(solved)
            /\ aggregated_stats = AggregatedStats(EarlierStats(solved), EarlierSync)
            /\ rating_history = AddedRatingHistory(<<>>, UtcDateOf(EarlierSync),
                                                   TodayRatings(EarlierStats(solved)))
    /\ platform_rating_history = [p \in PlatformSet |-> <<>>]
    /\ last_sync = <<EarlierSync>>
    /\ achievements = AwardLoop(1, <<>>, <<>>, aggregated_stats, EarlierSync).earned
    /\ newAchievements = <<>>
    /\ last_total = aggregated_stats.total_problems_solved
    /\ platformStats = [p \in PlatformSet |-> Null]
    /\ sync = IdlePass
    /\ call = [called |-> FALSE, seen |-> aggregated_stats, notifications |-> <<>>,
               alarms |-> 0]
    /\ race = <<>>

\* the listener runs as soon as aggregated_stats has changed, before the
\* pass that wrote it goes on
NextNotify ==
    \/ ~ChangePending /\ ops < MaxNotifyPasses /\ StartBackgroundSync
    \/ ~ChangePending /\ ops < MaxNotifyPasses /\ StartHandleSync
    \/ ~ChangePending /\ PassSteps
    \/ OnStorageChanged
    \/ DailyCheck

SpecNotify == InitNotify /\ [][NextNotify]_vars

----------------------------------------------------------------------------
(* Claims about generateInsights *)

InsightTypes == {call.insights[i].type : i \in 1..Len(call.insights)}

\* the sum of the four consecutive deltas of the last five points
LastFourDeltas ==
    LET n == Len(call.ratingHistory)
        recent == SubSeq(call.ratingHistory, n - 4, n)
    IN  SumOver(2..5, [i \in 2..5 |-> RatingChange(recent, i)])

\* C27, as stated: with at least 5 points in the rating history the 4
\* consecutive deltas of the last 5 points are averaged; the 'trending
\* upward' insight is emitted exactly when their mean is above +20 and the
\* 'recover your rating' insight exactly when it is below -20.
C27_TrendOfFour ==
    (call.called /\ call.op = "generateInsights" /\ Len(call.ratingHistory) >= 5) =>
        /\ "achievement" \in InsightTypes <=> LastFourDeltas > 4 * 20
        /\ "warning" \in InsightTypes <=> LastFourDeltas < -(4 * 20)

----------------------------------------------------------------------------
(* Claims about generateRecommendations *)

RecommendationTypes ==
    {call.recommendations[i].type : i \in 1..Len(call.recommendations)}

InactiveCount ==
    Cardinality({p \in DOMAIN call.platformStats : Inactive(call.platformStats[p])})

\* C28, as stated: the 'explore' recommendation is emitted exactly when at
\* least one platform of the stats map, but not every platform of it, has no
\* record or problems_solved = 0.
C28_ExploreUnlessAll ==
    (call.called /\ call.op = "generateRecommendations") =>
        ("explore" \in RecommendationTypes
            <=> (InactiveCount >= 1
                    /\ InactiveCount < Cardinality(DOMAIN call.platformStats)))

----------------------------------------------------------------------------
(* Claims about compareTimeframes *)

\* C29, as stated: for each of problems_solved, rating and contests the
\* percent change is the N/A sentinel (or undefined), not a numeric 0, when
\* the old value is zero and the new value is not, and 0 when both are zero.
C29_PercentSentinel ==
    (call.called /\ call.op = "compareTimeframes") =>
        \A key \in DOMAIN call.comparison :
            LET value == call.comparison[key]
            IN  /\ (value.old = 0 /\ value.new # 0) =>
                        \/ "percentage" \notin DOMAIN value
                        \/ value.percentage = String("N/A")
                /\ (value.old = 0 /\ value.new = 0) =>
                        value.percentage \in {Number(0), String("0"), String("0.0")}

----------------------------------------------------------------------------
(* Claims about the notifications of the background worker *)

\* C30, as stated: over any sequence of sync passes and aggregate updates
\* no achievement gets more than one 'Achievement Unlocked' notification
\* from the background worker, also when its condition stays true.
C30_NotifiedOnce ==
    "notifications" \in DOMAIN call =>
        \A i, j \in 1..Len(call.notifications) :
            (i # j) => call.notifications[i].id # call.notifications[j].id

====
